---- MODULE Spec2Model ----
(***************************************************************************)
(* Price-time priority limit order book: src/src/order_book.py (OrderBook) *)
(* over src/src/data_structures.py (DoublyLinkedList, BidOrders,           *)
(* AskOrders) and src/src/core_types.py (Order).                           *)
(*                                                                         *)
(* Order objects live in the sequence `orders`; an object is named by its  *)
(* index (its handle), so two objects with equal order_id stay distinct.   *)
(* Optional values (float | None, Order | None) are sequences of length    *)
(* at most one: None is <<>>, a present value x is <<x>>.                  *)
(* Prices and quantities are whole numbers, as in every test of the        *)
(* repository: arithmetic on them is exact, and the rounding of            *)
(* fractional floats is outside the model.                                 *)
(*                                                                         *)
(* Spec: callers that keep to place_order's contract. SpecAnyOrder: the   *)
(* last order a caller creates may be a TRIGGER order, a malformed order   *)
(* or an order under a resting identifier. SpecAsShipped: method names     *)
(* are looked up as data_structures.py defines them.                       *)
(*                                                                         *)
(* OrderBook calls PriceLevelOrdersBase.pop and                            *)
(* PriceLevelOrdersBase.delete_best_cancelled_orders, which                *)
(* data_structures.py does not define; they are modelled from the          *)
(* specification text (sections 3 and 4.2).                                *)
(***************************************************************************)
EXTENDS Integers, Sequences, FiniteSets, TLC

\* ---------------------------------------------------------------- bounds
MaxOrders == 3
MaxPrice == 2
MaxQuantity == 3

\* ------------------------------------------------------------ core_types
LIMIT == "limit"
MARKET == "market"
TRIGGER == "trigger"
OrderTypeEnum == {LIMIT, MARKET, TRIGGER}

BID == "bid"
ASK == "ask"
BidAskEnum == {BID, ASK}

None == <<>>
Some(x) == <<x>>

Order(order_id, order_type_enum, bid_ask_enum, price, quantity) ==
    [order_id |-> order_id, order_type_enum |-> order_type_enum,
     bid_ask_enum |-> bid_ask_enum, price |-> price, quantity |-> quantity]

\* ------------------------------------------------------- dict primitives
\* d[k] = v
DictSet(d, k, v) ==
    [x \in DOMAIN d \cup {k} |-> IF x = k THEN v ELSE d[x]]

\* del d[k] / d.pop(k, None) on a key that may be absent
DictDel(d, k) ==
    [x \in DOMAIN d \ {k} |-> d[x]]

EmptyDict == [x \in {} |-> 0]

\* ------------------------------------------------------ heapq primitives
\* The list heapq maintains is kept as the ascending sequence of its keys
\* (with multiplicity): the code reads only price_heap[0] and its truth
\* value, and heap[0] is the smallest key.
RECURSIVE heappush(_, _)
heappush(heap, key) ==
    IF heap = <<>> THEN <<key>>
    ELSE IF key <= Head(heap) THEN <<key>> \o heap
    ELSE <<Head(heap)>> \o heappush(Tail(heap), key)

heappop(heap) ==
    Tail(heap)

\* ------------------------------------------------------ DoublyLinkedList
\* nodes: the orders (handles) linked between the sentinels, head first;
\* order_id_to_node_map: order_id -> the node, named by the handle it holds.
DoublyLinkedList ==
    [nodes |-> <<>>, order_id_to_node_map |-> EmptyDict]

\* Faulty variant of push: the node is linked behind the head sentinel.
push_front(dll, ords, h) ==
    [nodes |-> <<h>> \o dll.nodes,
     order_id_to_node_map |-> DictSet(dll.order_id_to_node_map, ords[h].order_id, h)]

push(dll, ords, h) ==
    [nodes |-> Append(dll.nodes, h),
     order_id_to_node_map |-> DictSet(dll.order_id_to_node_map, ords[h].order_id, h)]

\* Faulty variant of remove: previous_node.next_node is set to the tail
\* sentinel, which unlinks the node and every node behind it.
remove_to_tail(dll, ords, h) ==
    LET id == ords[h].order_id IN
    IF id \notin DOMAIN dll.order_id_to_node_map THEN dll
    ELSE LET node == dll.order_id_to_node_map[id]
             at == CHOOSE i \in 1..Len(dll.nodes) : dll.nodes[i] = node
         IN [nodes |-> SubSeq(dll.nodes, 1, at - 1),
             order_id_to_node_map |-> DictDel(dll.order_id_to_node_map, id)]

\* Faulty variant of remove: the node leaves order_id_to_node_map but its
\* neighbours still point at it, so it stays linked.
remove_map_only(dll, ords, h) ==
    LET id == ords[h].order_id IN
    IF id \notin DOMAIN dll.order_id_to_node_map THEN dll
    ELSE [nodes |-> dll.nodes,
          order_id_to_node_map |-> DictDel(dll.order_id_to_node_map, id)]

remove(dll, ords, h) ==
    LET id == ords[h].order_id IN
    IF id \notin DOMAIN dll.order_id_to_node_map THEN dll
    ELSE LET node == dll.order_id_to_node_map[id] IN
         [nodes |-> SelectSeq(dll.nodes, LAMBDA n : n # node),
          order_id_to_node_map |-> DictDel(dll.order_id_to_node_map, id)]

\* Faulty variant of peek: the newest order of the level, not the oldest.
peek_tail(dll) ==
    IF dll.nodes = <<>> THEN None ELSE Some(dll.nodes[Len(dll.nodes)])

peek(dll) ==
    IF dll.nodes = <<>> THEN None ELSE Some(Head(dll.nodes))

is_empty(dll) ==
    dll.nodes = <<>>

\* ------------------------------------------- BidOrders / AskOrders
\* One side book; cls names the subclass, which fixes the sign of heap keys.
PriceLevelOrdersBase(cls) ==
    [cls |-> cls,
     price_to_quantity_map |-> EmptyDict,
     price_to_list_map |-> EmptyDict,
     price_heap |-> <<>>]

BidOrders ==
    PriceLevelOrdersBase("BidOrders")

AskOrders ==
    PriceLevelOrdersBase("AskOrders")

_heap_key(book, price) ==
    IF book.cls = "BidOrders" THEN 0 - price ELSE price

_real_price(book, heap_key) ==
    IF book.cls = "BidOrders" THEN 0 - heap_key ELSE heap_key

\* Faulty variant of add: `=` where `+=` should be, so a level that is
\* joined takes the newcomer's quantity as its aggregate.
add_overwrites_aggregate(book, ords, h) ==
    LET price == ords[h].price[1]
        heap_price == _heap_key(book, price)
    IN IF price \in DOMAIN book.price_to_list_map
       THEN [book EXCEPT
               !.price_to_quantity_map[price] = ords[h].quantity,
               !.price_to_list_map[price] = push(@, ords, h)]
       ELSE [book EXCEPT
               !.price_to_quantity_map = DictSet(@, price, ords[h].quantity),
               !.price_to_list_map = DictSet(@, price, push(DoublyLinkedList, ords, h)),
               !.price_heap = heappush(@, heap_price)]

\* Faulty variant of add: a new level is created without its heap key.
add_never_pushes(book, ords, h) ==
    LET price == ords[h].price[1] IN
    IF price \in DOMAIN book.price_to_list_map
    THEN [book EXCEPT
            !.price_to_quantity_map[price] = @ + ords[h].quantity,
            !.price_to_list_map[price] = push(@, ords, h)]
    ELSE [book EXCEPT
            !.price_to_quantity_map = DictSet(@, price, ords[h].quantity),
            !.price_to_list_map = DictSet(@, price, push(DoublyLinkedList, ords, h))]

\* Faulty variant of add: the order always gets a new list, which takes
\* the place of the level that was there.
add_new_list_always(book, ords, h) ==
    LET price == ords[h].price[1]
        heap_price == _heap_key(book, price)
    IN IF price \in DOMAIN book.price_to_list_map
       THEN [book EXCEPT
               !.price_to_quantity_map[price] = ords[h].quantity,
               !.price_to_list_map[price] = push(DoublyLinkedList, ords, h)]
       ELSE [book EXCEPT
               !.price_to_quantity_map = DictSet(@, price, ords[h].quantity),
               !.price_to_list_map = DictSet(@, price, push(DoublyLinkedList, ords, h)),
               !.price_heap = heappush(@, heap_price)]

add(book, ords, h) ==
    LET price == ords[h].price[1]
        heap_price == _heap_key(book, price)
    IN IF price \in DOMAIN book.price_to_list_map
       THEN [book EXCEPT
               !.price_to_quantity_map[price] = @ + ords[h].quantity,
               !.price_to_list_map[price] = push(@, ords, h)]
       ELSE [book EXCEPT
               !.price_to_quantity_map = DictSet(@, price, ords[h].quantity),
               !.price_to_list_map = DictSet(@, price, push(DoublyLinkedList, ords, h)),
               !.price_heap = heappush(@, heap_price)]

\* Faulty variant of delete_order: the aggregate of a level that keeps
\* other orders is left as it was.
delete_order_keeps_aggregate(book, ords, h) ==
    LET order_price == ords[h].price[1] IN
    IF order_price \notin DOMAIN book.price_to_list_map THEN book
    ELSE LET doubly_linked_list == remove(book.price_to_list_map[order_price], ords, h)
         IN IF is_empty(doubly_linked_list)
            THEN [book EXCEPT
                    !.price_to_quantity_map = DictDel(@, order_price),
                    !.price_to_list_map = DictDel(@, order_price)]
            ELSE [book EXCEPT
                    !.price_to_list_map[order_price] = doubly_linked_list]

\* Faulty variant of delete_order: an emptied level stays in both maps,
\* with an empty list and an aggregate of 0.
delete_order_keeps_level(book, ords, h) ==
    LET order_price == ords[h].price[1] IN
    IF order_price \notin DOMAIN book.price_to_list_map THEN book
    ELSE [book EXCEPT
            !.price_to_quantity_map[order_price] = @ - ords[h].quantity,
            !.price_to_list_map[order_price] = remove(@, ords, h)]

\* Faulty variant of delete_order: the key of an emptied level is taken
\* out of the heap at once.
delete_order_eager_heap(book, ords, h) ==
    LET order_price == ords[h].price[1] IN
    IF order_price \notin DOMAIN book.price_to_list_map THEN book
    ELSE LET doubly_linked_list == remove(book.price_to_list_map[order_price], ords, h)
             quantity == book.price_to_quantity_map[order_price] - ords[h].quantity
         IN IF is_empty(doubly_linked_list)
            THEN [book EXCEPT
                    !.price_to_quantity_map = DictDel(@, order_price),
                    !.price_to_list_map = DictDel(@, order_price),
                    !.price_heap = SelectSeq(@, LAMBDA k : k # _heap_key(book, order_price))]
            ELSE [book EXCEPT
                    !.price_to_quantity_map[order_price] = quantity,
                    !.price_to_list_map[order_price] = doubly_linked_list]

\* Faulty variant of delete_order: it returns as soon as the list is
\* empty, so the emptied level stays in both maps with the quantity of its
\* last order.
delete_order_leaves_last_quantity(book, ords, h) ==
    LET order_price == ords[h].price[1] IN
    IF order_price \notin DOMAIN book.price_to_list_map THEN book
    ELSE LET doubly_linked_list == remove(book.price_to_list_map[order_price], ords, h)
             quantity == book.price_to_quantity_map[order_price] - ords[h].quantity
         IN IF is_empty(doubly_linked_list)
            THEN [book EXCEPT
                    !.price_to_list_map[order_price] = doubly_linked_list]
            ELSE [book EXCEPT
                    !.price_to_quantity_map[order_price] = quantity,
                    !.price_to_list_map[order_price] = doubly_linked_list]

delete_order(book, ords, h) ==
    LET order_price == ords[h].price[1] IN
    IF order_price \notin DOMAIN book.price_to_list_map THEN book
    ELSE LET doubly_linked_list == remove(book.price_to_list_map[order_price], ords, h)
             quantity == book.price_to_quantity_map[order_price] - ords[h].quantity
         IN IF is_empty(doubly_linked_list)
            THEN [book EXCEPT
                    !.price_to_quantity_map = DictDel(@, order_price),
                    !.price_to_list_map = DictDel(@, order_price)]
            ELSE [book EXCEPT
                    !.price_to_quantity_map[order_price] = quantity,
                    !.price_to_list_map[order_price] = doubly_linked_list]

\* Faulty variant of decrease_order_quantity: the order shrinks, the
\* aggregate of its level does not.
decrease_order_quantity_order_only(book, ords, h, incoming_order_quantity) ==
    [book |-> book,
     orders |-> [ords EXCEPT ![h].quantity = @ - incoming_order_quantity]]

\* Faulty variant of decrease_order_quantity: the order is taken out of
\* its FIFO and pushed again, which sends it behind the others.
decrease_order_quantity_requeues(book, ords, h, incoming_order_quantity) ==
    [book |-> [book EXCEPT
                  !.price_to_quantity_map[ords[h].price[1]] =
                      @ - incoming_order_quantity,
                  !.price_to_list_map[ords[h].price[1]] =
                      push(remove(@, ords, h), ords, h)],
     orders |-> [ords EXCEPT ![h].quantity = @ - incoming_order_quantity]]

\* Mutates the side book and the order object: both are returned.
\* Faulty variant of decrease_order_quantity: `+=` where `-=` should be.
decrease_order_quantity_adds(book, ords, h, incoming_order_quantity) ==
    [book |-> [book EXCEPT !.price_to_quantity_map[ords[h].price[1]] =
                               @ + incoming_order_quantity],
     orders |-> [ords EXCEPT ![h].quantity = @ + incoming_order_quantity]]

decrease_order_quantity(book, ords, h, incoming_order_quantity) ==
    [book |-> [book EXCEPT !.price_to_quantity_map[ords[h].price[1]] =
                               @ - incoming_order_quantity],
     orders |-> [ords EXCEPT ![h].quantity = @ - incoming_order_quantity]]

get_quantity_for_price(book, price) ==
    IF price \in DOMAIN book.price_to_quantity_map
    THEN book.price_to_quantity_map[price]
    ELSE 0

RECURSIVE _delete_best_cancelled_orders(_)
_delete_best_cancelled_orders(book) ==
    IF book.price_heap = <<>> THEN book
    ELSE LET best_price == _real_price(book, book.price_heap[1]) IN
         IF \/ best_price \notin DOMAIN book.price_to_list_map
            \/ is_empty(book.price_to_list_map[best_price])
         THEN _delete_best_cancelled_orders(
                  [book EXCEPT
                     !.price_to_list_map = DictDel(@, best_price),
                     !.price_to_quantity_map = DictDel(@, best_price),
                     !.price_heap = heappop(@)])
         ELSE book

\* Faulty variant of get_best_order: the heap top is read as it stands,
\* without the cleanup pass.
get_best_order_no_cleanup(book) ==
    IF book.price_heap = <<>>
    THEN [book |-> book, result |-> None]
    ELSE LET best_price == _real_price(book, book.price_heap[1]) IN
         [book |-> book,
          result |-> IF best_price \in DOMAIN book.price_to_list_map
                     THEN peek(book.price_to_list_map[best_price])
                     ELSE None]

\* The cleanup mutates the side book: the book after the call and the
\* returned Order | None are both given.
\* Faulty variant of get_best_order: the level it reads the best order
\* from is taken out of both maps.
get_best_order_takes_level(book) ==
    LET cleaned == _delete_best_cancelled_orders(book) IN
    IF cleaned.price_heap = <<>>
    THEN [book |-> cleaned, result |-> None]
    ELSE LET best_price == _real_price(cleaned, cleaned.price_heap[1]) IN
         [book |-> [cleaned EXCEPT
                      !.price_to_list_map = DictDel(@, best_price),
                      !.price_to_quantity_map = DictDel(@, best_price)],
          result |-> peek(cleaned.price_to_list_map[best_price])]

get_best_order(book) ==
    LET cleaned == _delete_best_cancelled_orders(book) IN
    IF cleaned.price_heap = <<>>
    THEN [book |-> cleaned, result |-> None]
    ELSE [book |-> cleaned,
          result |-> peek(cleaned.price_to_list_map[
                              _real_price(cleaned, cleaned.price_heap[1])])]

\* Not defined in data_structures.py; called at order_book.py:51, 75, 76.
\* Section 4.2, "Lazy heap cleanup algorithm": the cleanup pass.
delete_best_cancelled_orders(book) ==
    _delete_best_cancelled_orders(book)

\* Not defined in data_structures.py; called at order_book.py:38, 48 right
\* after get_best_order. Sections 3 and 4.3 step 4: the head of the best
\* level leaves its FIFO, the aggregate drops by its quantity, an emptied
\* level leaves both maps, and the heap key waits for the next cleanup.
pop(book, ords) ==
    IF book.price_heap = <<>> THEN book
    ELSE LET best_price == _real_price(book, book.price_heap[1]) IN
         IF best_price \notin DOMAIN book.price_to_list_map THEN book
         ELSE LET head == peek(book.price_to_list_map[best_price]) IN
              IF head = None THEN book
              ELSE delete_order(book, ords, head[1])

\* -------------------------------------------------------------- OrderBook
VARIABLES
    orders,           \* the Order objects the caller has created, by handle
    id_to_order_map,  \* OrderBook.id_to_order_map: order_id -> handle
    bid_orders,       \* OrderBook.bid_orders
    ask_orders,       \* OrderBook.ask_orders
    placed_quantity,  \* history: the quantity each order was created with
    last              \* history: the last call and its match steps

vars == <<orders, id_to_order_map, bid_orders, ask_orders, placed_quantity, last>>

\* The engine and the order objects it can reach, as one value the methods
\* transform. raised: the exception that left the running call, or None.
\* trades: history of the match steps of the running call.
Engine(ords, idmap, bids, asks) ==
    [orders |-> ords, id_to_order_map |-> idmap,
     bid_orders |-> bids, ask_orders |-> asks,
     raised |-> None, trades |-> <<>>]

\* The handles linked in some FIFO of a side book.
Linked(book) ==
    UNION {{book.price_to_list_map[p].nodes[i] :
               i \in 1..Len(book.price_to_list_map[p].nodes)} :
           p \in DOMAIN book.price_to_list_map}

\* Faulty variant of DelIdToOrder: the del statement left out.
DelIdToOrder_skipped(st, order_id) ==
    st

\* del self.id_to_order_map[order_id]: KeyError when the key is absent.
DelIdToOrder(st, order_id) ==
    IF order_id \in DOMAIN st.id_to_order_map
    THEN [st EXCEPT !.id_to_order_map = DictDel(@, order_id)]
    ELSE [st EXCEPT !.raised = Some("KeyError")]

\* The quantity left on a set of order objects.
RECURSIVE SumQuantity(_, _)
SumQuantity(hs, ords) ==
    IF hs = {} THEN 0
    ELSE LET h == CHOOSE x \in hs : TRUE IN
         ords[h].quantity + SumQuantity(hs \ {h}, ords)

\* History of one match step: who traded, the quantities before and after,
\* and the orders that rested on the opposite side before the step.
TradeRecord(before, after, o, b, opp) ==
    [incoming |-> o, resting |-> b,
     incoming_before |-> before.orders[o].quantity,
     resting_before |-> before.orders[b].quantity,
     incoming_after |-> after.orders[o].quantity,
     resting_after |-> after.orders[b].quantity,
     aggregate_before |-> get_quantity_for_price(before[opp], before.orders[b].price[1]),
     aggregate_after |-> get_quantity_for_price(after[opp], before.orders[b].price[1]),
     opposite_before |-> Linked(before[opp]),
     fifo_before |-> IF before.orders[b].price[1] \in DOMAIN before[opp].price_to_list_map
                     THEN before[opp].price_to_list_map[before.orders[b].price[1]].nodes
                     ELSE <<>>,
     fifo_after |-> IF before.orders[b].price[1] \in DOMAIN after[opp].price_to_list_map
                    THEN after[opp].price_to_list_map[before.orders[b].price[1]].nodes
                    ELSE <<>>,
     opposite_total_before |-> SumQuantity(Linked(before[opp]), before.orders),
     opposite_total_after |-> SumQuantity(Linked(after[opp]), after.orders)]

\* Faulty variant of _execute_match: in the last branch the resting
\* order's quantity is set to 0 before it is taken off the incoming
\* order, which therefore keeps its quantity.
_execute_match_zero_first(st, o, b, opp) ==
    LET oq == st.orders[o].quantity
        bq == st.orders[b].quantity
        filled ==
            IF oq = bq
            THEN DelIdToOrder(
                     [st EXCEPT ![opp] = pop(@, st.orders),
                                !.orders[o].quantity = 0,
                                !.orders[b].quantity = 0],
                     st.orders[b].order_id)
            ELSE IF oq < bq
            THEN LET d == decrease_order_quantity(st[opp], st.orders, b, oq) IN
                 [st EXCEPT ![opp] = d.book,
                            !.orders = [d.orders EXCEPT ![o].quantity = 0]]
            ELSE DelIdToOrder(
                     [st EXCEPT ![opp] = pop(@, st.orders),
                                !.orders[o].quantity = oq - 0,
                                !.orders[b].quantity = 0],
                     st.orders[b].order_id)
        done ==
            IF filled.raised # None THEN filled
            ELSE [filled EXCEPT ![opp] = delete_best_cancelled_orders(@)]
    IN [done EXCEPT !.trades = Append(@, TradeRecord(st, done, o, b, opp))]

\* o: the incoming order, b: the best opposite order, opp: the field that
\* holds the opposite book ("bid_orders" or "ask_orders").
\* Faulty variant of _execute_match: equal quantities fall into the
\* branch of the smaller incoming order (`<=` for `<`), which leaves the
\* resting order in its level and in the index with quantity 0.
_execute_match_equal_as_partial(st, o, b, opp) ==
    LET oq == st.orders[o].quantity
        bq == st.orders[b].quantity
        filled ==
            IF oq <= bq
            THEN LET d == decrease_order_quantity(st[opp], st.orders, b, oq) IN
                 [st EXCEPT ![opp] = d.book,
                            !.orders = [d.orders EXCEPT ![o].quantity = 0]]
            ELSE DelIdToOrder(
                     [st EXCEPT ![opp] = pop(@, st.orders),
                                !.orders[o].quantity = oq - bq,
                                !.orders[b].quantity = 0],
                     st.orders[b].order_id)
        done ==
            IF filled.raised # None THEN filled
            ELSE [filled EXCEPT ![opp] = delete_best_cancelled_orders(@)]
    IN [done EXCEPT !.trades = Append(@, TradeRecord(st, done, o, b, opp))]

\* Faulty variant of _execute_match: each call trades one unit only, so a
\* resting order can take several iterations of the loop.
_execute_match_one_unit(st, o, b, opp) ==
    LET oq == st.orders[o].quantity
        bq == st.orders[b].quantity
        filled ==
            IF bq = 1
            THEN DelIdToOrder(
                     [st EXCEPT ![opp] = pop(@, st.orders),
                                !.orders[o].quantity = oq - 1,
                                !.orders[b].quantity = 0],
                     st.orders[b].order_id)
            ELSE LET d == decrease_order_quantity(st[opp], st.orders, b, 1) IN
                 [st EXCEPT ![opp] = d.book,
                            !.orders = [d.orders EXCEPT ![o].quantity = oq - 1]]
        done ==
            IF filled.raised # None THEN filled
            ELSE [filled EXCEPT ![opp] = delete_best_cancelled_orders(@)]
    IN [done EXCEPT !.trades = Append(@, TradeRecord(st, done, o, b, opp))]

\* Faulty variant of _execute_match: in the last branch the incoming
\* order's quantity is set to 0 (`=` for `-=`).
_execute_match_zeroes_incoming(st, o, b, opp) ==
    LET oq == st.orders[o].quantity
        bq == st.orders[b].quantity
        filled ==
            IF oq = bq
            THEN DelIdToOrder(
                     [st EXCEPT ![opp] = pop(@, st.orders),
                                !.orders[o].quantity = 0,
                                !.orders[b].quantity = 0],
                     st.orders[b].order_id)
            ELSE IF oq < bq
            THEN LET d == decrease_order_quantity(st[opp], st.orders, b, oq) IN
                 [st EXCEPT ![opp] = d.book,
                            !.orders = [d.orders EXCEPT ![o].quantity = 0]]
            ELSE DelIdToOrder(
                     [st EXCEPT ![opp] = pop(@, st.orders),
                                !.orders[o].quantity = 0,
                                !.orders[b].quantity = 0],
                     st.orders[b].order_id)
        done ==
            IF filled.raised # None THEN filled
            ELSE [filled EXCEPT ![opp] = delete_best_cancelled_orders(@)]
    IN [done EXCEPT !.trades = Append(@, TradeRecord(st, done, o, b, opp))]

_execute_match(st, o, b, opp) ==
    LET oq == st.orders[o].quantity
        bq == st.orders[b].quantity
        filled ==
            IF oq = bq
            THEN DelIdToOrder(
                     [st EXCEPT ![opp] = pop(@, st.orders),
                                !.orders[o].quantity = 0,
                                !.orders[b].quantity = 0],
                     st.orders[b].order_id)
            ELSE IF oq < bq
            THEN LET d == decrease_order_quantity(st[opp], st.orders, b, oq) IN
                 [st EXCEPT ![opp] = d.book,
                            !.orders = [d.orders EXCEPT ![o].quantity = 0]]
            ELSE DelIdToOrder(
                     [st EXCEPT ![opp] = pop(@, st.orders),
                                !.orders[o].quantity = oq - bq,
                                !.orders[b].quantity = 0],
                     st.orders[b].order_id)
        done ==
            IF filled.raised # None THEN filled
            ELSE [filled EXCEPT ![opp] = delete_best_cancelled_orders(@)]
    IN [done EXCEPT !.trades = Append(@, TradeRecord(st, done, o, b, opp))]

\* Faulty variant of price_match_condition: the comparisons swapped
\* between the sides.
price_match_condition_swapped(bid_ask_enum, order_price, book_price) ==
    IF bid_ask_enum = BID
    THEN order_price <= book_price
    ELSE order_price >= book_price

\* Faulty variant of price_match_condition: strict comparisons.
price_match_condition_strict(bid_ask_enum, order_price, book_price) ==
    IF bid_ask_enum = BID
    THEN order_price > book_price
    ELSE order_price < book_price

\* The lambdas of place_order, chosen by the incoming order's side.
price_match_condition(bid_ask_enum, order_price, book_price) ==
    IF bid_ask_enum = BID
    THEN order_price >= book_price
    ELSE order_price <= book_price

\* Faulty variant of _match_limit_order: the price condition is not
\* asked, so a limit order trades like a market order before it rests.
RECURSIVE _match_limit_order_any_price(_, _, _)
_match_limit_order_any_price(st, o, opp) ==
    IF st.raised # None \/ ~(st.orders[o].quantity > 0) THEN st
    ELSE LET best == get_best_order(st[opp])
             st1 == [st EXCEPT ![opp] = best.book]
         IN IF best.result = None
            THEN st1
            ELSE _match_limit_order_any_price(
                     _execute_match(st1, o, best.result[1], opp), o, opp)

\* Faulty variant of _match_limit_order: an `if` where the loop should be,
\* so the order meets at most one resting order before it rests.
_match_limit_order_once(st, o, opp) ==
    IF st.raised # None \/ ~(st.orders[o].quantity > 0) THEN st
    ELSE LET best == get_best_order(st[opp])
             st1 == [st EXCEPT ![opp] = best.book]
         IN IF best.result = None
            THEN st1
            ELSE IF st1.orders[o].price = None
            THEN [st1 EXCEPT !.raised = Some("TypeError")]
            ELSE IF ~price_match_condition(st1.orders[o].bid_ask_enum,
                                           st1.orders[o].price[1],
                                           st1.orders[best.result[1]].price[1])
            THEN st1
            ELSE _execute_match(st1, o, best.result[1], opp)

RECURSIVE _match_limit_order(_, _, _)
_match_limit_order(st, o, opp) ==
    IF st.raised # None \/ ~(st.orders[o].quantity > 0) THEN st
    ELSE LET best == get_best_order(st[opp])
             st1 == [st EXCEPT ![opp] = best.book]
         IN IF best.result = None
            THEN st1
            ELSE IF st1.orders[o].price = None
            THEN \* order_price >= book_price with order_price None
                 [st1 EXCEPT !.raised = Some("TypeError")]
            ELSE IF ~price_match_condition(st1.orders[o].bid_ask_enum,
                                           st1.orders[o].price[1],
                                           st1.orders[best.result[1]].price[1])
            THEN st1
            ELSE _match_limit_order(_execute_match(st1, o, best.result[1], opp), o, opp)

\* Faulty variant of _match_market_order: an `if` where the loop should
\* be, so the order meets at most one resting order.
_match_market_order_once(st, o, opp) ==
    IF st.raised # None \/ ~(st.orders[o].quantity > 0) THEN st
    ELSE LET best == get_best_order(st[opp])
             st1 == [st EXCEPT ![opp] = best.book]
         IN IF best.result = None
            THEN st1
            ELSE _execute_match(st1, o, best.result[1], opp)

\* Faulty variant of _match_market_order: when the opposite side runs out
\* the order's residual is written off (quantity set to 0).
RECURSIVE _match_market_order_zeroes_residual(_, _, _)
_match_market_order_zeroes_residual(st, o, opp) ==
    IF st.raised # None \/ ~(st.orders[o].quantity > 0) THEN st
    ELSE LET best == get_best_order(st[opp])
             st1 == [st EXCEPT ![opp] = best.book]
         IN IF best.result = None
            THEN [st1 EXCEPT !.orders[o].quantity = 0]
            ELSE _match_market_order_zeroes_residual(
                     _execute_match(st1, o, best.result[1], opp), o, opp)

RECURSIVE _match_market_order(_, _, _)
_match_market_order(st, o, opp) ==
    IF st.raised # None \/ ~(st.orders[o].quantity > 0) THEN st
    ELSE LET best == get_best_order(st[opp])
             st1 == [st EXCEPT ![opp] = best.book]
         IN IF best.result = None
            THEN st1
            ELSE _match_market_order(_execute_match(st1, o, best.result[1], opp), o, opp)

\* Faulty variant of place_order: `else` where `elif ... MARKET` should
\* be, so an order of any other kind is matched like a market order.
place_order_else_market(st, o) ==
    LET st1 == [st EXCEPT !.bid_orders = delete_best_cancelled_orders(@),
                          !.ask_orders = delete_best_cancelled_orders(@)]
        order == st.orders[o]
        home == IF order.bid_ask_enum = BID THEN "bid_orders" ELSE "ask_orders"
        opp == IF order.bid_ask_enum = BID THEN "ask_orders" ELSE "bid_orders"
    IN IF order.order_type_enum = LIMIT
       THEN LET st2 == _match_limit_order(st1, o, opp) IN
            IF st2.raised = None /\ st2.orders[o].quantity > 0
            THEN IF order.price = None /\ home = "bid_orders"
                 THEN [st2 EXCEPT !.raised = Some("TypeError")]
                 ELSE [st2 EXCEPT ![home] = add(@, st2.orders, o),
                                  !.id_to_order_map = DictSet(@, order.order_id, o)]
            ELSE st2
       ELSE _match_market_order(st1, o, opp)

\* Faulty variant of place_order: the residual test is `>= 0`, so a LIMIT
\* order with nothing left is added to its side.
place_order_rests_empty(st, o) ==
    LET st1 == [st EXCEPT !.bid_orders = delete_best_cancelled_orders(@),
                          !.ask_orders = delete_best_cancelled_orders(@)]
        order == st.orders[o]
        home == IF order.bid_ask_enum = BID THEN "bid_orders" ELSE "ask_orders"
        opp == IF order.bid_ask_enum = BID THEN "ask_orders" ELSE "bid_orders"
    IN IF order.order_type_enum = LIMIT
       THEN LET st2 == _match_limit_order(st1, o, opp) IN
            IF st2.raised = None /\ st2.orders[o].quantity >= 0
            THEN IF order.price = None /\ home = "bid_orders"
                 THEN [st2 EXCEPT !.raised = Some("TypeError")]
                 ELSE [st2 EXCEPT ![home] = add(@, st2.orders, o),
                                  !.id_to_order_map = DictSet(@, order.order_id, o)]
            ELSE st2
       ELSE IF order.order_type_enum = MARKET
       THEN _match_market_order(st1, o, opp)
       ELSE st1

\* Faulty variant of place_order: a LIMIT order is added to its side
\* without being matched first.
place_order_skips_matching(st, o) ==
    LET st1 == [st EXCEPT !.bid_orders = delete_best_cancelled_orders(@),
                          !.ask_orders = delete_best_cancelled_orders(@)]
        order == st.orders[o]
        home == IF order.bid_ask_enum = BID THEN "bid_orders" ELSE "ask_orders"
        opp == IF order.bid_ask_enum = BID THEN "ask_orders" ELSE "bid_orders"
    IN IF order.order_type_enum = LIMIT
       THEN IF st1.orders[o].quantity > 0
            THEN IF order.price = None /\ home = "bid_orders"
                 THEN [st1 EXCEPT !.raised = Some("TypeError")]
                 ELSE [st1 EXCEPT ![home] = add(@, st1.orders, o),
                                  !.id_to_order_map = DictSet(@, order.order_id, o)]
            ELSE st1
       ELSE IF order.order_type_enum = MARKET
       THEN _match_market_order(st1, o, opp)
       ELSE st1

place_order(st, o) ==
    LET st1 == [st EXCEPT !.bid_orders = delete_best_cancelled_orders(@),
                          !.ask_orders = delete_best_cancelled_orders(@)]
        order == st.orders[o]
        home == IF order.bid_ask_enum = BID THEN "bid_orders" ELSE "ask_orders"
        opp == IF order.bid_ask_enum = BID THEN "ask_orders" ELSE "bid_orders"
    IN IF order.order_type_enum = LIMIT
       THEN LET st2 == _match_limit_order(st1, o, opp) IN
            IF st2.raised = None /\ st2.orders[o].quantity > 0
            THEN IF order.price = None /\ home = "bid_orders"
                 THEN \* add: BidOrders._heap_key(None) is -None
                      [st2 EXCEPT !.raised = Some("TypeError")]
                 ELSE [st2 EXCEPT ![home] = add(@, st2.orders, o),
                                  !.id_to_order_map = DictSet(@, order.order_id, o)]
            ELSE st2
       ELSE IF order.order_type_enum = MARKET
       THEN _match_market_order(st1, o, opp)
       ELSE st1

\* Faulty variant of cancel_order: no early return, so the lookup of an
\* identifier the index does not hold raises KeyError.
cancel_order_unguarded(st, order_id) ==
    IF order_id \notin DOMAIN st.id_to_order_map
    THEN [st EXCEPT !.raised = Some("KeyError")]
    ELSE LET cancelled_order == st.id_to_order_map[order_id]
             book == IF st.orders[cancelled_order].bid_ask_enum = BID
                     THEN "bid_orders" ELSE "ask_orders"
         IN [st EXCEPT ![book] = delete_order(@, st.orders, cancelled_order),
                       !.id_to_order_map = DictDel(@, order_id)]

\* Faulty variant of cancel_order: the identifier stays in the index.
cancel_order_keeps_index(st, order_id) ==
    IF order_id \notin DOMAIN st.id_to_order_map THEN st
    ELSE LET cancelled_order == st.id_to_order_map[order_id]
             book == IF st.orders[cancelled_order].bid_ask_enum = BID
                     THEN "bid_orders" ELSE "ask_orders"
         IN [st EXCEPT ![book] = delete_order(@, st.orders, cancelled_order)]

cancel_order(st, order_id) ==
    IF order_id \notin DOMAIN st.id_to_order_map THEN st
    ELSE LET cancelled_order == st.id_to_order_map[order_id]
             book == IF st.orders[cancelled_order].bid_ask_enum = BID
                     THEN "bid_orders" ELSE "ask_orders"
         IN [st EXCEPT ![book] = delete_order(@, st.orders, cancelled_order),
                       !.id_to_order_map = DictDel(@, order_id)]

get_best_bid_order(st) ==
    LET best == get_best_order(st.bid_orders) IN
    [st |-> [st EXCEPT !.bid_orders = best.book], result |-> best.result]

get_best_ask_order(st) ==
    LET best == get_best_order(st.ask_orders) IN
    [st |-> [st EXCEPT !.ask_orders = best.book], result |-> best.result]

\* Faulty variant of get_best_bid_price: the number 0 for an empty side.
get_best_bid_price_zero(st) ==
    LET best == get_best_bid_order(st) IN
    [st |-> best.st,
     result |-> IF best.result # None THEN st.orders[best.result[1]].price ELSE Some(0)]

get_best_bid_price(st) ==
    LET best == get_best_bid_order(st) IN
    [st |-> best.st,
     result |-> IF best.result # None THEN st.orders[best.result[1]].price ELSE None]

get_best_ask_price(st) ==
    LET best == get_best_ask_order(st) IN
    [st |-> best.st,
     result |-> IF best.result # None THEN st.orders[best.result[1]].price ELSE None]

\* OrderBook.get_quantity_for_price(price, order_type)
OrderBook_get_quantity_for_price(st, price, order_type) ==
    get_quantity_for_price(
        IF order_type = BID THEN st.bid_orders ELSE st.ask_orders, price)

\* ---------------------------------------------------------------- calls
\* The engine in the current state.
Now ==
    Engine(orders, id_to_order_map, bid_orders, ask_orders)

\* The engine handed a new order object, which takes the next handle.
WithOrder(st, order) ==
    [st EXCEPT !.orders = Append(@, order)]

\* What a call leaves in `last`: the method, its arguments, the order
\* object it was about (None when there is none), the exception that left
\* it and its match steps.
Call(op, args, target, st) ==
    [op |-> op, args |-> args, target |-> target,
     raised |-> st.raised, trades |-> st.trades]

\* The engine's state after a call, written back to the variables.
Becomes(st) ==
    /\ orders' = st.orders
    /\ id_to_order_map' = st.id_to_order_map
    /\ bid_orders' = st.bid_orders
    /\ ask_orders' = st.ask_orders

\* The orders a well-behaved caller submits: LIMIT with a positive price
\* and quantity, MARKET with no price and a positive quantity.
WellFormedOrders(order_id) ==
    {Order(order_id, LIMIT, side, Some(price), quantity) :
        side \in BidAskEnum, price \in 1..MaxPrice, quantity \in 1..MaxQuantity}
    \cup
    {Order(order_id, MARKET, side, None, quantity) :
        side \in BidAskEnum, quantity \in 1..MaxQuantity}

\* OrderBook(): an empty book, no order created yet.
Init ==
    /\ orders = <<>>
    /\ id_to_order_map = EmptyDict
    /\ bid_orders = BidOrders
    /\ ask_orders = AskOrders
    /\ placed_quantity = <<>>
    /\ last = [op |-> "__init__", args |-> <<>>, target |-> None,
               raised |-> None, trades |-> <<>>]

\* The caller creates an Order with an identifier it has not used before
\* (it numbers its orders in creation order) and places it.
PlaceOrder ==
    /\ Len(orders) < MaxOrders
    /\ \E order \in WellFormedOrders(Len(orders) + 1) :
          LET o == Len(orders) + 1
              st == place_order([Now EXCEPT !.orders = Append(@, order)], o)
          IN /\ Becomes(st)
             /\ placed_quantity' = Append(placed_quantity, order.quantity)
             /\ last' = Call("place_order", <<order>>, Some(o), st)

CancelOrder ==
    \E order_id \in 1..MaxOrders :
        LET st == cancel_order(Now, order_id) IN
        /\ Becomes(st)
        /\ UNCHANGED placed_quantity
        /\ last' = Call("cancel_order", <<order_id>>,
                        IF order_id \in DOMAIN id_to_order_map
                        THEN Some(id_to_order_map[order_id]) ELSE None,
                        st)

\* The queries leave one and the same record in the history: what they
\* return is a function of the state they are called in (Observed below).
Query(st) ==
    Call("query", <<>>, None, st)

GetBestBidOrder ==
    LET r == get_best_bid_order(Now) IN
    /\ Becomes(r.st)
    /\ UNCHANGED placed_quantity
    /\ last' = Query(r.st)

GetBestAskOrder ==
    LET r == get_best_ask_order(Now) IN
    /\ Becomes(r.st)
    /\ UNCHANGED placed_quantity
    /\ last' = Query(r.st)

GetBestBidPrice ==
    LET r == get_best_bid_price(Now) IN
    /\ Becomes(r.st)
    /\ UNCHANGED placed_quantity
    /\ last' = Query(r.st)

GetBestAskPrice ==
    LET r == get_best_ask_price(Now) IN
    /\ Becomes(r.st)
    /\ UNCHANGED placed_quantity
    /\ last' = Query(r.st)

\* get_quantity_for_price reads price_to_quantity_map and changes nothing.
GetQuantityForPrice ==
    \E price \in 1..MaxPrice, order_type \in BidAskEnum :
        /\ OrderBook_get_quantity_for_price(Now, price, order_type) >= 0
        /\ Becomes(Now)
        /\ UNCHANGED placed_quantity
        /\ last' = Query(Now)

Next ==
    \/ PlaceOrder
    \/ CancelOrder
    \/ GetBestBidOrder
    \/ GetBestAskOrder
    \/ GetBestBidPrice
    \/ GetBestAskPrice
    \/ GetQuantityForPrice

Spec ==
    Init /\ [][Next]_vars

\* ------------------------------------------------- what the claims speak of
\* These definitions read the book the way the claims describe it (the
\* orders linked in the FIFOs, their prices and their creation order); they
\* never read price_heap.

\* The FIFO at a price, head first; empty when the level is absent.
NodesAt(book, price) ==
    IF price \in DOMAIN book.price_to_list_map
    THEN book.price_to_list_map[price].nodes
    ELSE <<>>

SeqToSet(seq) ==
    {seq[i] : i \in 1..Len(seq)}

Min(a, b) ==
    IF a <= b THEN a ELSE b

\* The book of a side, and of the other side.
BookOf(st, side) ==
    IF side = BID THEN st.bid_orders ELSE st.ask_orders

Opposite(side) ==
    IF side = BID THEN ASK ELSE BID

\* r has priority over b among the orders resting on the side `side`:
\* a more aggressive price (higher bid, lower ask), or the same price and
\* an earlier insertion. An order enters its level during the call that
\* placed it and handles grow with the calls, so the smaller handle was
\* inserted earlier.
HasPriority(ords, side, r, b) ==
    \/ IF side = BID
       THEN ords[r].price[1] > ords[b].price[1]
       ELSE ords[r].price[1] < ords[b].price[1]
    \/ ords[r].price[1] = ords[b].price[1] /\ r < b

\* The order with priority over every other order linked on a side.
BestResting(st, side) ==
    LET hs == Linked(BookOf(st, side)) IN
    IF hs = {} THEN None
    ELSE Some(CHOOSE b \in hs :
                 \A r \in hs \ {b} : HasPriority(st.orders, side, b, r))

\* The step just taken was a call of the named method (each call leaves
\* its own record in `last`).
Called(op) ==
    last'.op = op

\* The engine after the step.
After ==
    Engine(orders', id_to_order_map', bid_orders', ask_orders')

\* ----------------------------------------------------------------- claims

\* C1. Price-time priority: every match step of a place_order trades
\* against the resting order that, among all orders resting on the opposite
\* side before the step, has the most aggressive price and, at that price,
\* was inserted earliest; no order is traded while one with priority rests.
C1_PriceTimePriority ==
    \A i \in 1..Len(last.trades) :
        LET t == last.trades[i]
            side == Opposite(orders[t.incoming].bid_ask_enum)
        IN /\ t.resting \in t.opposite_before
           /\ \A r \in t.opposite_before \ {t.resting} :
                  ~HasPriority(orders, side, r, t.resting)

\* A sweep: the call traded with two orders at different prices, in price
\* order, and a third call before it had left them resting.
C1_Witness ==
    /\ last.op = "place_order"
    /\ Len(last.trades) = 2
    /\ orders[last.trades[1].resting].price # orders[last.trades[2].resting].price
    /\ last.trades[2].resting \in last.trades[1].opposite_before

\* The incoming limit price reaches the resting price: bid >= ask.
Crosses(side, order_price, resting_price) ==
    IF side = BID
    THEN ~(order_price < resting_price)
    ELSE ~(resting_price < order_price)

\* C2. Limit price protection: a LIMIT BID trades with a resting ask only
\* if bid.price >= ask.price, a LIMIT ASK with a resting bid only if
\* ask.price <= bid.price; when the best opposite order is out of reach the
\* call trades nothing, changes no resting quantity and rests the incoming
\* order with its full quantity.
C2_Step ==
    (Called("place_order") /\ last'.args[1].order_type_enum = LIMIT) =>
        LET order == last'.args[1]
            o == last'.target[1]
            side == order.bid_ask_enum
            best == BestResting(Now, Opposite(side))
        IN /\ \A i \in 1..Len(last'.trades) :
                 Crosses(side, order.price[1],
                         orders[last'.trades[i].resting].price[1])
           /\ (best # None /\ ~Crosses(side, order.price[1], orders[best[1]].price[1])) =>
                 /\ last'.trades = <<>>
                 /\ \A h \in 1..Len(orders) : orders'[h] = orders[h]
                 /\ Linked(BookOf(After, Opposite(side))) = Linked(BookOf(Now, Opposite(side)))
                 /\ o \in Linked(BookOf(After, side))
                 /\ orders'[o].quantity = order.quantity

\* C2, over every step of every behaviour: limit price protection.
C2_LimitPriceProtection ==
    [][C2_Step]_vars

\* A limit bid below the best ask came to rest beside it, untraded.
C2_Witness ==
    /\ last.op = "place_order"
    /\ last.args[1].order_type_enum = LIMIT
    /\ last.args[1].bid_ask_enum = BID
    /\ last.trades = <<>>
    /\ last.target[1] \in Linked(bid_orders)
    /\ \E a \in Linked(ask_orders) : orders[a].price[1] > last.args[1].price[1]

\* C3. After place_order(o), o is in its home side's FIFO and in the
\* id-index if and only if o is a LIMIT order with quantity > 0 after
\* matching; it is then the tail of the level at o.price, whose earlier
\* orders keep their places, and the level's aggregate has grown by o's
\* residual quantity.
C3_Step ==
    Called("place_order") =>
        LET order == last'.args[1]
            o == last'.target[1]
            side == order.bid_ask_enum
            rests == order.order_type_enum = LIMIT /\ orders'[o].quantity > 0
            home == BookOf(Now, side)
            home_after == BookOf(After, side)
        IN /\ (o \in Linked(home_after)) <=> rests
           /\ (/\ order.order_id \in DOMAIN id_to_order_map'
               /\ id_to_order_map'[order.order_id] = o) <=> rests
           /\ o \notin Linked(BookOf(After, Opposite(side)))
           /\ rests =>
                 /\ NodesAt(home_after, order.price[1])
                        = Append(NodesAt(home, order.price[1]), o)
                 /\ get_quantity_for_price(home_after, order.price[1])
                        = get_quantity_for_price(home, order.price[1])
                              + orders'[o].quantity

\* C3, over every step of every behaviour: an order rests iff it is a LIMIT order with a residual.
C3_RestsIffLimitResidual ==
    [][C3_Step]_vars

\* A limit order swept two resting orders and came to rest with what was
\* left of it.
C3_Witness ==
    /\ last.op = "place_order"
    /\ Len(last.trades) = 2
    /\ LET o == last.target[1] IN
       /\ orders[o].order_type_enum = LIMIT
       /\ NodesAt(BookOf(Now, orders[o].bid_ask_enum), orders[o].price[1]) = <<o>>
       /\ orders[o].quantity > 0
       /\ orders[o].quantity < placed_quantity[o]

\* C4. MARKET orders never rest: no MARKET order is ever linked in a FIFO
\* or held by the id-index; placing one leaves the best order and the
\* aggregates of its own side as they were, and what the opposite side
\* could not fill stays on the order object as o.quantity > 0.
C4_Step ==
    /\ \A h \in 1..Len(orders') :
          orders'[h].order_type_enum = MARKET =>
              /\ h \notin Linked(bid_orders') \cup Linked(ask_orders')
              /\ \A id \in DOMAIN id_to_order_map' : id_to_order_map'[id] # h
    /\ (Called("place_order") /\ last'.args[1].order_type_enum = MARKET) =>
          LET order == last'.args[1]
              o == last'.target[1]
              side == order.bid_ask_enum
              available == SumQuantity(Linked(BookOf(Now, Opposite(side))), orders)
          IN /\ order.order_id \notin DOMAIN id_to_order_map'
             /\ BestResting(After, side) = BestResting(Now, side)
             /\ get_best_order(BookOf(After, side)).result
                    = get_best_order(BookOf(Now, side)).result
             /\ \A price \in 1..MaxPrice :
                    get_quantity_for_price(BookOf(After, side), price)
                        = get_quantity_for_price(BookOf(Now, side), price)
             /\ available < order.quantity =>
                    /\ orders'[o].quantity = order.quantity - available
                    /\ orders'[o].quantity > 0

\* C4, over every step of every behaviour: MARKET orders never rest.
C4_MarketNeverRests ==
    [][C4_Step]_vars

\* A MARKET bid emptied the ask side, kept an unfilled rest, and the bid
\* side still holds the order that rested there before.
C4_Witness ==
    /\ last.op = "place_order"
    /\ last.args[1].order_type_enum = MARKET
    /\ last.args[1].bid_ask_enum = BID
    /\ last.trades # <<>>
    /\ orders[last.target[1]].quantity > 0
    /\ Linked(ask_orders) = {}
    /\ Linked(bid_orders) # {}

\* C5. Total fill of one placement: the quantity a place_order fills (the
\* quantity the order came with minus its quantity on return) is
\* min(Q, E), E being the quantity resting on the opposite side within the
\* order's reach (all of it for MARKET; for LIMIT the asks priced <= the
\* bid, the bids priced >= the ask); the opposite side's resting quantity
\* drops by the same amount.
C5_Step ==
    Called("place_order") =>
        LET order == last'.args[1]
            o == last'.target[1]
            side == order.bid_ask_enum
            opposite == Linked(BookOf(Now, Opposite(side)))
            eligible == {h \in opposite :
                            \/ order.order_type_enum = MARKET
                            \/ Crosses(side, order.price[1], orders[h].price[1])}
            filled == order.quantity - orders'[o].quantity
        IN /\ filled = Min(order.quantity, SumQuantity(eligible, orders))
           /\ SumQuantity(opposite, orders)
                  - SumQuantity(Linked(BookOf(After, Opposite(side))), orders')
                  = filled

\* C5, over every step of every behaviour: the fill of a placement is min(Q, E).
C5_TotalFill ==
    [][C5_Step]_vars

\* A limit order cleared one level and took part of the next: it is filled
\* and the second order it met still rests.
C5_Witness ==
    /\ last.op = "place_order"
    /\ last.args[1].order_type_enum = LIMIT
    /\ Len(last.trades) = 2
    /\ orders[last.trades[1].resting].price # orders[last.trades[2].resting].price
    /\ last.trades[2].resting_after > 0
    /\ orders[last.target[1]].quantity = 0

\* The quantity resting at a price on a side: the sum over the level's FIFO.
RestingQuantity(st, side, price) ==
    SumQuantity(SeqToSet(NodesAt(BookOf(st, side), price)), st.orders)

\* C6. In every state, for every price and side, get_quantity_for_price
\* is the sum of the remaining quantities of the orders resting at that
\* price on that side, and zero when none rests there.
C6_AggregateIsSum ==
    \A side \in BidAskEnum, price \in 1..MaxPrice :
        /\ OrderBook_get_quantity_for_price(Now, price, side)
               = RestingQuantity(Now, side, price)
        /\ NodesAt(BookOf(Now, side), price) = <<>> =>
               OrderBook_get_quantity_for_price(Now, price, side) = 0

\* The head of a level of two was filled in part: the aggregate counts
\* what is left of it and the order behind it.
C6_Witness ==
    /\ last.op = "place_order"
    /\ Len(last.trades) = 1
    /\ last.trades[1].resting_after > 0
    /\ LET b == last.trades[1].resting IN
       Len(NodesAt(BookOf(Now, orders[b].bid_ask_enum), orders[b].price[1])) = 2

\* The head of the FIFO at the most aggressive price that holds an order,
\* read from the levels alone.
BestLevelHead(book) ==
    LET prices == {p \in DOMAIN book.price_to_list_map :
                      book.price_to_list_map[p].nodes # <<>>}
    IN IF prices = {} THEN None
       ELSE LET best == CHOOSE p \in prices :
                            \A q \in prices :
                                IF book.cls = "BidOrders" THEN q <= p ELSE p <= q
            IN Some(Head(book.price_to_list_map[best].nodes))

\* C7. In every state a caller can observe, get_best_bid_order returns
\* the head of the FIFO at the highest bid price that holds a resting
\* order, get_best_ask_order the head at the lowest such ask price, and
\* each returns None exactly when its side holds no resting order.
C7_BestOrder ==
    /\ get_best_bid_order(Now).result = BestLevelHead(bid_orders)
    /\ get_best_ask_order(Now).result = BestLevelHead(ask_orders)
    /\ get_best_bid_order(Now).result = BestResting(Now, BID)
    /\ get_best_ask_order(Now).result = BestResting(Now, ASK)
    /\ (get_best_bid_order(Now).result = None) <=> (Linked(bid_orders) = {})
    /\ (get_best_ask_order(Now).result = None) <=> (Linked(ask_orders) = {})

\* cancel_order has just emptied the best bid level: its key is still the
\* heap's top, and a worse level holds an order.
C7_Witness ==
    /\ last.op = "cancel_order"
    /\ last.target # None
    /\ bid_orders.price_heap # <<>>
    /\ _real_price(bid_orders, bid_orders.price_heap[1])
           \notin DOMAIN bid_orders.price_to_list_map
    /\ Linked(bid_orders) # {}

CancelledResting ==
    Called("cancel_order") /\ last'.args[1] \in DOMAIN id_to_order_map

\* C9. cancel_order(id) of a resting id removes exactly that order: the id
\* leaves the id-index, the order leaves its level's FIFO, no other order
\* leaves, and the aggregate at its price on its side drops by the
\* quantity the order had left.
C9_Step ==
    CancelledResting =>
        LET id == last'.args[1]
            h == id_to_order_map[id]
            side == orders[h].bid_ask_enum
            price == orders[h].price[1]
        IN /\ DOMAIN id_to_order_map' = DOMAIN id_to_order_map \ {id}
           /\ h \in Linked(BookOf(Now, side))
           /\ Linked(BookOf(After, side)) = Linked(BookOf(Now, side)) \ {h}
           /\ Linked(BookOf(After, Opposite(side))) = Linked(BookOf(Now, Opposite(side)))
           /\ h \notin SeqToSet(NodesAt(BookOf(After, side), price))
           /\ OrderBook_get_quantity_for_price(After, price, side)
                  = OrderBook_get_quantity_for_price(Now, price, side)
                        - orders[h].quantity

\* C9, over every step of every behaviour: cancel_order removes exactly the cancelled order.
C9_CancelRemovesOne ==
    [][C9_Step]_vars

\* An order that had been filled in part was cancelled while another order
\* rested on its side.
C9_Witness ==
    /\ last.op = "cancel_order"
    /\ last.target # None
    /\ LET h == last.target[1] IN
       /\ orders[h].quantity < placed_quantity[h]
       /\ orders[h].quantity > 0
       /\ h \notin Linked(bid_orders) \cup Linked(ask_orders)
       /\ Linked(BookOf(Now, orders[h].bid_ask_enum)) # {}

\* C10. cancel_order(id) changes nothing but the cancelled order's
\* membership: every order object, the cancelled one included, keeps its
\* fields; every level keeps its other orders in their order; the
\* opposite side is untouched.
C10_Step ==
    CancelledResting =>
        LET h == id_to_order_map[last'.args[1]]
            side == orders[h].bid_ask_enum
        IN /\ orders' = orders
           /\ \A s \in BidAskEnum, price \in 1..MaxPrice :
                  NodesAt(BookOf(After, s), price)
                      = SelectSeq(NodesAt(BookOf(Now, s), price), LAMBDA n : n # h)
           /\ \A s \in BidAskEnum, price \in 1..MaxPrice :
                  price # orders[h].price[1] \/ s # side =>
                      OrderBook_get_quantity_for_price(After, price, s)
                          = OrderBook_get_quantity_for_price(Now, price, s)
           /\ BookOf(After, Opposite(side)) = BookOf(Now, Opposite(side))

\* C10, over every step of every behaviour: cancel_order changes nothing else.
C10_CancelFrame ==
    [][C10_Step]_vars

\* The middle order of a queue of three was cancelled: the head is still
\* the head and the last order stands right behind it.
C10_Witness ==
    /\ last.op = "cancel_order"
    /\ last.target # None
    /\ LET h == last.target[1]
           nodes == NodesAt(BookOf(Now, orders[h].bid_ask_enum), orders[h].price[1])
       IN /\ Len(nodes) = 2
          /\ nodes[1] < h
          /\ h < nodes[2]

\* What a caller can read off the engine: the answers of the five queries.
Observed(st) ==
    [best_bid_order |-> get_best_bid_order(st).result,
     best_ask_order |-> get_best_ask_order(st).result,
     best_bid_price |-> get_best_bid_price(st).result,
     best_ask_price |-> get_best_ask_price(st).result,
     quantity_for_price |->
         [side \in BidAskEnum, price \in 0..MaxPrice |->
             OrderBook_get_quantity_for_price(st, price, side)]]

\* C11. cancel_order(id) for an id the id-index does not hold (never
\* placed, filled, cancelled before, or the id of a MARKET order) raises
\* nothing and leaves the whole book as it was: both sides (FIFOs,
\* aggregates, heaps), the id-index, every order object and the answers of
\* all queries.
C11_Step ==
    (Called("cancel_order") /\ last'.args[1] \notin DOMAIN id_to_order_map) =>
        /\ last'.raised = None
        /\ last'.target = None
        /\ bid_orders' = bid_orders
        /\ ask_orders' = ask_orders
        /\ id_to_order_map' = id_to_order_map
        /\ orders' = orders
        /\ Observed(After) = Observed(Now)

\* C11, over every step of every behaviour: cancelling an unknown id is a no-op.
C11_UnknownCancelNoOp ==
    [][C11_Step]_vars

\* The id of a LIMIT order that a trade had filled was cancelled while
\* other orders rest in the book.
C11_Witness ==
    /\ last.op = "cancel_order"
    /\ last.target = None
    /\ last.raised = None
    /\ last.args[1] \in 1..Len(orders)
    /\ orders[last.args[1]].order_type_enum = LIMIT
    /\ orders[last.args[1]].quantity = 0
    /\ Linked(bid_orders) \cup Linked(ask_orders) # {}

\* C13. Cancel is idempotent: in every state and for every id, cancelling
\* twice leaves the engine where cancelling once leaves it; the state a
\* cancel_order(id) has just produced is not changed by cancelling id again.
C13_CancelIdempotent ==
    /\ \A id \in 1..MaxOrders :
           cancel_order(cancel_order(Now, id), id) = cancel_order(Now, id)
    /\ last.op = "cancel_order" => cancel_order(Now, last.args[1]) = Now

\* A resting order was cancelled out of a level that still holds another
\* order, so a second removal would have something to take away.
C13_Witness ==
    /\ last.op = "cancel_order"
    /\ last.target # None
    /\ LET h == last.target[1] IN
       /\ orders[h].quantity > 0
       /\ NodesAt(BookOf(Now, orders[h].bid_ask_enum), orders[h].price[1]) # <<>>

\* The FIFOs of a side book that hold an order, by price.
Levels(book) ==
    [p \in {q \in DOMAIN book.price_to_list_map :
                book.price_to_list_map[q].nodes # <<>>} |->
        book.price_to_list_map[p].nodes]

\* The book as the claims compare it: the FIFOs of both sides, the
\* aggregates, the id-index and the answers of the queries. The heaps,
\* whose stale keys no caller sees, are left out.
BookView(st) ==
    [bid_levels |-> Levels(st.bid_orders),
     ask_levels |-> Levels(st.ask_orders),
     bid_aggregates |-> st.bid_orders.price_to_quantity_map,
     ask_aggregates |-> st.ask_orders.price_to_quantity_map,
     id_to_order_map |-> st.id_to_order_map,
     observed |-> Observed(st)]

\* The order does not reach the best order of the opposite side.
NonCrossing(st, order) ==
    LET best == BestResting(st, Opposite(order.bid_ask_enum)) IN
    \/ best = None
    \/ ~Crosses(order.bid_ask_enum, order.price[1], st.orders[best[1]].price[1])

\* The engine as a query leaves it. get_quantity_for_price changes nothing
\* and can follow any call, so every engine state a behaviour reaches
\* (orders, id-index, both side books) is also reached with a query as the
\* last call: a law of the engine's methods that is stated of these
\* states is stated of every reachable engine state, once for each.
AtRest ==
    last.op = "query"

\* C14. Place/cancel round trip: in every state, for every LIMIT order o
\* that does not cross the opposite side, place_order(o) rests o and
\* cancel_order(o.id) then returns the book to what it was before: the
\* same FIFOs in the same order on both sides, the same aggregates, the
\* same id-index, the same answers to every query, and no resting order's
\* quantity changed.
C14_PlaceCancelRoundTrip ==
    \A order \in WellFormedOrders(Len(orders) + 1) :
        (AtRest /\ order.order_type_enum = LIMIT /\ NonCrossing(Now, order)) =>
            LET o == Len(orders) + 1
                placed == place_order(WithOrder(Now, order), o)
                back == cancel_order(placed, order.order_id)
            IN /\ placed.raised = None
               /\ back.raised = None
               /\ o \in Linked(BookOf(placed, order.bid_ask_enum))
               /\ BookView(placed) # BookView(Now)
               /\ BookView(back) = BookView(Now)
               /\ SubSeq(back.orders, 1, Len(orders)) = orders

\* The newest order, never traded, was cancelled out of a level it had
\* joined, while the opposite side holds an order it did not reach.
C14_Witness ==
    /\ last.op = "cancel_order"
    /\ last.target = Some(Len(orders))
    /\ LET h == Len(orders) IN
       /\ orders[h].quantity = placed_quantity[h]
       /\ NodesAt(BookOf(Now, orders[h].bid_ask_enum), orders[h].price[1]) # <<>>
       /\ Linked(BookOf(Now, Opposite(orders[h].bid_ask_enum))) # {}
       /\ NonCrossing(Now, orders[h])

\* C15. Cancellation commutes with unrelated placements: in every state,
\* for every resting id and every well-formed order o that cannot trade
\* with the order of that id (o is on its side, or o is a LIMIT order of
\* the other side whose price does not reach its price), cancel_order(id)
\* then place_order(o), and place_order(o) then cancel_order(id), end with
\* the same book (FIFOs, aggregates, id-index, query answers), the same
\* o.quantity and the same quantity on every other order.
C15_CancelCommutesWithPlace ==
    \A id \in IF AtRest THEN DOMAIN id_to_order_map ELSE {} :
        \A order \in WellFormedOrders(Len(orders) + 1) :
            LET r == id_to_order_map[id]
                o == Len(orders) + 1
                unrelated ==
                    \/ order.bid_ask_enum = orders[r].bid_ask_enum
                    \/ /\ order.order_type_enum = LIMIT
                       /\ ~Crosses(order.bid_ask_enum, order.price[1],
                                   orders[r].price[1])
                cancel_first == place_order(cancel_order(WithOrder(Now, order), id), o)
                place_first == cancel_order(place_order(WithOrder(Now, order), o), id)
            IN unrelated =>
                  /\ cancel_first.raised = None
                  /\ place_first.raised = None
                  /\ BookView(cancel_first) = BookView(place_first)
                  /\ cancel_first.orders = place_first.orders

\* place_order(o), then cancel_order(id): the newest order, a LIMIT order
\* of the other side that does not reach the cancelled order's price, had
\* traded with a better-priced order before the cancellation.
C15_Witness ==
    /\ last.op = "cancel_order"
    /\ last.target # None
    /\ LET h == last.target[1]
           o == Len(orders)
       IN /\ h < o
          /\ orders[o].order_type_enum = LIMIT
          /\ orders[o].bid_ask_enum # orders[h].bid_ask_enum
          /\ ~Crosses(orders[o].bid_ask_enum, orders[o].price[1], orders[h].price[1])
          /\ orders[o].quantity < placed_quantity[o]

\* C19 as the specification words it. Per match step of incoming o against
\* resting b: the traded quantity is t = min(o.quantity, b.quantity) taken
\* before the step, o.quantity and b.quantity each decrease by t, the
\* aggregate at b's price decreases by t, and the change of the opposite
\* side's total resting quantity PLUS the change of o.quantity is zero.
C19_DeltaSumIsZero ==
    \A i \in 1..Len(last.trades) :
        LET t == last.trades[i]
            traded == Min(t.incoming_before, t.resting_before)
        IN /\ t.incoming_after = t.incoming_before - traded
           /\ t.resting_after = t.resting_before - traded
           /\ t.aggregate_after = t.aggregate_before - traded
           /\ (t.opposite_total_after - t.opposite_total_before)
                  + (t.incoming_after - t.incoming_before) = 0

\* C19, amended. Per match step of incoming o against resting b: the traded
\* quantity is t = min(o.quantity, b.quantity) taken before the step,
\* o.quantity and b.quantity each decrease by t, the aggregate at b's
\* price decreases by t, and the change of the opposite side's total
\* resting quantity EQUALS the change of o.quantity: both are -t.
C19_MatchStep ==
    \A i \in 1..Len(last.trades) :
        LET t == last.trades[i]
            traded == Min(t.incoming_before, t.resting_before)
        IN /\ t.incoming_after = t.incoming_before - traded
           /\ t.resting_after = t.resting_before - traded
           /\ t.aggregate_after = t.aggregate_before - traded
           /\ t.opposite_total_after - t.opposite_total_before = 0 - traded
           /\ t.incoming_after - t.incoming_before = 0 - traded

\* One call with both kinds of step: the incoming order was the larger in
\* its first step, which removed the resting order, and the smaller in its
\* second, which left the resting order with a rest.
C19_Witness ==
    /\ last.op = "place_order"
    /\ Len(last.trades) = 2
    /\ last.trades[1].incoming_before > last.trades[1].resting_before
    /\ last.trades[2].incoming_before < last.trades[2].resting_before
    /\ last.trades[2].opposite_total_after = last.trades[2].resting_after
    /\ last.trades[2].resting_after > 0

\* The handles the id-index refers to.
Indexed(st) ==
    {st.id_to_order_map[id] : id \in DOMAIN st.id_to_order_map}

\* The places (side, price, position) at which an order object is linked.
LinkedAt(st, h) ==
    {<<side, price, i>> \in BidAskEnum \X (0..MaxPrice) \X (1..Len(st.orders)) :
        /\ i <= Len(NodesAt(BookOf(st, side), price))
        /\ NodesAt(BookOf(st, side), price)[i] = h}

\* C20. Id-index consistency, in every state: an order is in the id-index
\* if and only if it is resting (linked in a FIFO, quantity > 0); every id
\* of the id-index refers to an order of that id that is linked exactly
\* once, in the FIFO at its own price on its own side; every linked order
\* is of a price level's own price and has quantity > 0.
C20_IdIndexConsistent ==
    /\ \A h \in 1..Len(orders) :
           (h \in Indexed(Now)) <=>
               /\ h \in Linked(bid_orders) \cup Linked(ask_orders)
               /\ orders[h].quantity > 0
    /\ \A id \in DOMAIN id_to_order_map :
           LET h == id_to_order_map[id] IN
           /\ orders[h].order_id = id
           /\ orders[h].price # None
           /\ Cardinality(LinkedAt(Now, h)) = 1
           /\ \E i \in 1..Len(orders) :
                  LinkedAt(Now, h) = {<<orders[h].bid_ask_enum, orders[h].price[1], i>>}
    /\ \A h \in Linked(bid_orders) \cup Linked(ask_orders) :
           orders[h].quantity > 0
    /\ Linked(bid_orders) \cap Linked(ask_orders) = {}

\* A placement filled one resting order, which left the id-index, and
\* took part of a second, which stays in it; the incoming order, filled,
\* never entered it.
C20_Witness ==
    /\ last.op = "place_order"
    /\ Len(last.trades) = 2
    /\ last.trades[1].resting_after = 0
    /\ last.trades[1].resting \notin Indexed(Now)
    /\ last.trades[2].resting_after > 0
    /\ last.trades[2].resting \in Indexed(Now)
    /\ orders[last.target[1]].quantity = 0

\* --------------------------------------------- the engine as it is shipped
\* The method names an instance of BidOrders or AskOrders resolves: those
\* PriceLevelOrdersBase and its two subclasses define in data_structures.py.
PriceLevelOrdersBase_attributes ==
    {"__init__", "add", "delete_order", "decrease_order_quantity",
     "get_quantity_for_price", "get_best_order",
     "_delete_best_cancelled_orders", "_heap_key", "_real_price"}

\* place_order with its first statement taken as written:
\* self.bid_orders.delete_best_cancelled_orders() looks the name up on the
\* side book, and a name the class does not define raises AttributeError
\* before anything is changed.
place_order_as_shipped(st, o) ==
    IF "delete_best_cancelled_orders" \notin PriceLevelOrdersBase_attributes
    THEN [st EXCEPT !.raised = Some("AttributeError")]
    ELSE place_order(st, o)

\* As PlaceOrder, against the engine as it is shipped.
PlaceOrderAsShipped ==
    /\ Len(orders) < MaxOrders
    /\ \E order \in WellFormedOrders(Len(orders) + 1) :
          LET o == Len(orders) + 1
              st == place_order_as_shipped(WithOrder(Now, order), o)
          IN /\ Becomes(st)
             /\ placed_quantity' = Append(placed_quantity, order.quantity)
             /\ last' = Call("place_order", <<order>>, Some(o), st)

NextAsShipped ==
    \/ PlaceOrderAsShipped
    \/ CancelOrder
    \/ GetBestBidOrder
    \/ GetBestAskOrder
    \/ GetBestBidPrice
    \/ GetBestAskPrice
    \/ GetQuantityForPrice

SpecAsShipped ==
    Init /\ [][NextAsShipped]_vars

\* C12. The engine never raises for normal flows: no call of place_order
\* with a well-formed order (LIMIT with positive price and quantity, or
\* MARKET with positive quantity, id not resting), of cancel_order with any
\* id, or of a best-price or quantity query ends with an exception.
C12_NeverRaises ==
    last.raised = None

\* ------------------------------------------ orders outside the contract
\* Orders of kind TRIGGER, with and without a price.
TriggerOrders(order_id) ==
    {Order(order_id, TRIGGER, side, price, quantity) :
        side \in BidAskEnum,
        price \in {None} \cup {Some(p) : p \in 1..MaxPrice},
        quantity \in {MaxQuantity}}

\* Malformed orders: quantity 0; LIMIT with price 0; LIMIT BID with no
\* price. (A LIMIT ASK with no price would put None among the keys of the
\* ask heap, which this model's heap of numbers does not hold.)
MalformedOrders(order_id) ==
    {Order(order_id, LIMIT, side, Some(price), 0) :
        side \in BidAskEnum, price \in 1..MaxPrice}
    \cup
    {Order(order_id, MARKET, side, None, 0) : side \in BidAskEnum}
    \cup
    {Order(order_id, LIMIT, side, Some(0), quantity) :
        side \in BidAskEnum, quantity \in 1..MaxQuantity}
    \cup
    {Order(order_id, LIMIT, BID, None, quantity) : quantity \in 1..MaxQuantity}

\* Every order created so far was within place_order's contract (one of
\* WellFormedOrders) and carried the next unused identifier.
InContract ==
    \A h \in 1..Len(orders) :
        /\ orders[h].order_id = h
        /\ orders[h].quantity > 0
        /\ \/ orders[h].order_type_enum = MARKET
           \/ /\ orders[h].order_type_enum = LIMIT
              /\ orders[h].price # None
              /\ orders[h].price[1] > 0

\* A caller that has kept to the contract places a well-formed order.
PlaceInContract ==
    /\ InContract
    /\ PlaceOrder

\* ... or, as the last order it creates, an order of kind TRIGGER under a
\* new identifier.
PlaceTrigger ==
    /\ InContract
    /\ Len(orders) < MaxOrders
    /\ \E order \in TriggerOrders(Len(orders) + 1) :
          LET o == Len(orders) + 1
              st == place_order(WithOrder(Now, order), o)
          IN /\ Becomes(st)
             /\ placed_quantity' = Append(placed_quantity, order.quantity)
             /\ last' = Call("place_order", <<order>>, Some(o), st)

\* ... or, as the last order it creates, a new order object under an
\* identifier that is resting.
PlaceDuplicate ==
    /\ InContract
    /\ Len(orders) < MaxOrders
    /\ \E order_id \in DOMAIN id_to_order_map :
          \E order \in WellFormedOrders(order_id) :
              LET o == Len(orders) + 1
                  st == place_order(WithOrder(Now, order), o)
              IN /\ Becomes(st)
                 /\ placed_quantity' = Append(placed_quantity, order.quantity)
                 /\ last' = Call("place_order", <<order>>, Some(o), st)

\* ... or, as the last order it creates, a malformed order under a new
\* identifier.
PlaceMalformed ==
    /\ InContract
    /\ Len(orders) < MaxOrders
    /\ \E order \in MalformedOrders(Len(orders) + 1) :
          LET o == Len(orders) + 1
              st == place_order(WithOrder(Now, order), o)
          IN /\ Becomes(st)
             /\ placed_quantity' = Append(placed_quantity, order.quantity)
             /\ last' = Call("place_order", <<order>>, Some(o), st)

NextAnyOrder ==
    \/ PlaceInContract
    \/ PlaceTrigger
    \/ PlaceDuplicate
    \/ PlaceMalformed
    \/ CancelOrder
    \/ GetBestBidOrder
    \/ GetBestAskOrder
    \/ GetBestBidPrice
    \/ GetBestAskPrice
    \/ GetQuantityForPrice

SpecAnyOrder ==
    Init /\ [][NextAnyOrder]_vars

\* The order objects that existed before the step are as they were.
EarlierOrdersUnchanged ==
    SubSeq(orders', 1, Len(orders)) = orders

\* C16. place_order of an order whose id is resting in the book is
\* rejected with an explicit error, and the book (both sides' FIFOs, the
\* aggregates, the id-index) and the resting orders are left as they were.
C16_Step ==
    (Called("place_order") /\ last'.args[1].order_id \in DOMAIN id_to_order_map) =>
        /\ last'.raised # None
        /\ BookView(After) = BookView(Now)
        /\ EarlierOrdersUnchanged

\* C16, over every step of every behaviour: duplicate ids are rejected.
C16_DuplicateRejected ==
    [][C16_Step]_vars

\* Malformed: quantity not positive, or LIMIT without a positive price.
IsMalformed(order) ==
    \/ order.quantity <= 0
    \/ /\ order.order_type_enum = LIMIT
       /\ (order.price = None \/ order.price[1] <= 0)

\* C17. place_order of a malformed order (quantity not positive, LIMIT
\* with no price, LIMIT with a price that is not positive) is rejected
\* with an explicit error and never changes the book in part: no resting
\* quantity changes and nothing is inserted.
C17_Step ==
    (Called("place_order") /\ IsMalformed(last'.args[1])) =>
        /\ last'.raised # None
        /\ BookView(After) = BookView(Now)
        /\ EarlierOrdersUnchanged

\* C17, over every step of every behaviour: malformed orders are rejected.
C17_MalformedRejected ==
    [][C17_Step]_vars

\* C18. place_order of an order of kind TRIGGER neither rests nor trades:
\* the order keeps its quantity, every earlier order keeps its quantity,
\* and both sides' FIFOs, the aggregates, the id-index and the answers of
\* the queries are what they were.
C18_Step ==
    (Called("place_order") /\ last'.args[1].order_type_enum = TRIGGER) =>
        /\ orders'[last'.target[1]] = last'.args[1]
        /\ EarlierOrdersUnchanged
        /\ last'.trades = <<>>
        /\ last'.target[1] \notin Linked(bid_orders') \cup Linked(ask_orders')
        /\ BookView(After) = BookView(Now)

\* C18, over every step of every behaviour: TRIGGER orders change nothing.
C18_TriggerIgnored ==
    [][C18_Step]_vars

\* A TRIGGER bid with a price was placed while an ask it reaches rests,
\* and a bid rests on its own side.
C18_Witness ==
    /\ last.op = "place_order"
    /\ last.args[1].order_type_enum = TRIGGER
    /\ last.args[1].bid_ask_enum = BID
    /\ last.args[1].price # None
    /\ \E a \in Linked(ask_orders) :
           orders[a].price[1] <= last.args[1].price[1]
    /\ Linked(bid_orders) # {}

\* The last match step of the call in `last` filled its resting order in
\* part (the incoming order was the smaller).
LastStepPartial(call) ==
    /\ call.op = "place_order"
    /\ call.trades # <<>>
    /\ LET t == call.trades[Len(call.trades)] IN
       t.incoming_before < t.resting_before

\* C21. A partial fill does not cost queue position: a match step whose
\* incoming order is smaller than the head it meets leaves the head linked
\* at the head of its FIFO with its quantity reduced and the FIFO's members
\* and their order as they were, also when the call returns; and the next
\* placement that trades on that side trades with that same order first.
C21_Step ==
    /\ Called("place_order") =>
          \A i \in 1..Len(last'.trades) :
              LET t == last'.trades[i]
                  b == t.resting
                  side == orders'[b].bid_ask_enum
              IN t.incoming_before < t.resting_before =>
                    /\ i = Len(last'.trades)
                    /\ Head(t.fifo_before) = b
                    /\ t.fifo_after = t.fifo_before
                    /\ t.resting_after = t.resting_before - t.incoming_before
                    /\ orders'[b].quantity = t.resting_after
                    /\ NodesAt(BookOf(After, side), orders'[b].price[1]) = t.fifo_before
                    /\ get_best_order(BookOf(After, side)).result = Some(b)
    /\ (LastStepPartial(last) /\ Called("place_order") /\ last'.trades # <<>>) =>
          LET b == last.trades[Len(last.trades)].resting IN
          last'.args[1].bid_ask_enum # orders[b].bid_ask_enum =>
              /\ last'.trades[1].resting = b
              /\ last'.trades[1].resting_before = orders[b].quantity

\* C21, over every step of every behaviour: a partial fill keeps the queue position.
C21_PartialFillKeepsPlace ==
    [][C21_Step]_vars

\* The head of a level of two was filled in part by the call that has just
\* returned: it is still the head, and the order behind it is untouched.
C21_Witness ==
    /\ LastStepPartial(last)
    /\ LET t == last.trades[Len(last.trades)]
           b == t.resting
       IN /\ Len(t.fifo_before) = 2
          /\ NodesAt(BookOf(Now, orders[b].bid_ask_enum), orders[b].price[1])
                 = <<b, t.fifo_before[2]>>
          /\ orders[b].quantity < placed_quantity[b]
          /\ orders[t.fifo_before[2]].quantity = placed_quantity[t.fifo_before[2]]

\* Where a placed order has ended when place_order returns.
IsResting(st, o) ==
    /\ o \in Linked(BookOf(st, st.orders[o].bid_ask_enum))
    /\ o \in Indexed(st)
    /\ st.orders[o].quantity > 0

IsFilled(st, o) ==
    /\ st.orders[o].quantity = 0
    /\ o \notin Linked(st.bid_orders) \cup Linked(st.ask_orders)
    /\ o \notin Indexed(st)

IsDiscarded(st, o) ==
    /\ st.orders[o].order_type_enum = MARKET
    /\ st.orders[o].quantity > 0
    /\ o \notin Linked(st.bid_orders) \cup Linked(st.ask_orders)
    /\ o \notin Indexed(st)

\* C22. Exit conditions of matching. When place_order returns with a
\* MARKET order's quantity still > 0, the opposite side holds no resting
\* order; when it has rested a LIMIT order, the opposite side is empty or
\* its best order's price does not cross the order's price; in all other
\* cases the incoming order's quantity is 0. Every placed LIMIT or MARKET
\* order ends in exactly one of RESTING, FILLED, DISCARDED.
C22_Step ==
    Called("place_order") =>
        LET order == last'.args[1]
            o == last'.target[1]
            side == order.bid_ask_enum
            best == get_best_order(BookOf(After, Opposite(side))).result
            discarded == order.order_type_enum = MARKET /\ orders'[o].quantity > 0
        IN /\ discarded =>
                 /\ Linked(BookOf(After, Opposite(side))) = {}
                 /\ IsDiscarded(After, o)
           /\ IsResting(After, o) =>
                 /\ order.order_type_enum = LIMIT
                 /\ best = BestResting(After, Opposite(side))
                 /\ \/ Linked(BookOf(After, Opposite(side))) = {}
                    \/ ~Crosses(side, order.price[1], orders'[best[1]].price[1])
           /\ (~discarded /\ ~IsResting(After, o)) => IsFilled(After, o)
           /\ Cardinality({x \in {"RESTING", "FILLED", "DISCARDED"} :
                              \/ x = "RESTING" /\ IsResting(After, o)
                              \/ x = "FILLED" /\ IsFilled(After, o)
                              \/ x = "DISCARDED" /\ IsDiscarded(After, o)}) = 1

\* C22, over every step of every behaviour: how matching ends.
C22_ExitConditions ==
    [][C22_Step]_vars

\* A LIMIT order traded with the best opposite order, stopped at the next
\* one, whose price it does not reach, and rests.
C22_Witness ==
    /\ last.op = "place_order"
    /\ last.args[1].order_type_enum = LIMIT
    /\ last.trades # <<>>
    /\ IsResting(Now, last.target[1])
    /\ Linked(BookOf(Now, Opposite(last.args[1].bid_ask_enum))) # {}

\* The order objects created so far that are in no FIFO: filled,
\* cancelled, or never rested.
Gone ==
    {h \in 1..Len(orders) : h \notin Linked(bid_orders) \cup Linked(ask_orders)}

\* C23. FILLED and CANCELLED are terminal. A resting order whose quantity
\* reaches 0, or which is cancelled, leaves its FIFO and the id-index in
\* that same operation; from then on (identifiers are not reused) no
\* operation links or indexes it again, changes its quantity, trades
\* against it or returns it from a best-order query, and cancel_order of
\* its identifier changes nothing.
C23_Step ==
    LET before == Linked(bid_orders) \cup Linked(ask_orders)
        after == Linked(bid_orders') \cup Linked(ask_orders')
        traded == {last'.trades[i].resting : i \in 1..Len(last'.trades)}
                      \cup {last'.trades[i].incoming : i \in 1..Len(last'.trades)}
        best == {get_best_bid_order(After).result, get_best_ask_order(After).result}
    IN /\ \A h \in before :
              \/ orders'[h].quantity = 0
              \/ Called("cancel_order") /\ last'.target = Some(h)
              => /\ h \notin after
                 /\ h \notin Indexed(After)
       /\ \A h \in (1..Len(orders)) \ before :
              /\ h \notin after
              /\ h \notin Indexed(After)
              /\ orders[h].order_id \notin DOMAIN id_to_order_map'
              /\ orders'[h] = orders[h]
              /\ h \notin traded
              /\ cancel_order(After, orders[h].order_id) = After
       /\ \A r \in best : r = None \/ r[1] \in after

\* C23, over every step of every behaviour: filled and cancelled orders
\* never come back.
C23_Terminal ==
    [][C23_Step]_vars

\* An order rested, was cancelled with its quantity untouched, and the
\* placement that followed traded with a younger order of its side at a
\* price no better than its own.
C23_Witness ==
    /\ last.op = "place_order"
    /\ last.trades # <<>>
    /\ \E h \in Gone :
           LET b == last.trades[1].resting IN
           /\ orders[h].order_type_enum = LIMIT
           /\ orders[h].quantity = placed_quantity[h]
           /\ h < b
           /\ orders[h].bid_ask_enum = orders[b].bid_ask_enum
           /\ orders[h].price = orders[b].price

\* C24. Equal-quantity match: when the incoming order's quantity equals
\* the best opposite order's quantity, that one match step sets both
\* quantities to 0 and takes the resting order out of its level (whose
\* other orders keep their places) and out of the id-index; it is the
\* call's last step and the incoming order does not rest.
C24_EqualQuantityMatch ==
    last.op = "place_order" =>
        \A i \in 1..Len(last.trades) :
            LET t == last.trades[i]
                o == t.incoming
                b == t.resting
            IN t.incoming_before = t.resting_before =>
                  /\ t.incoming_after = 0
                  /\ t.resting_after = 0
                  /\ Head(t.fifo_before) = b
                  /\ t.fifo_after = Tail(t.fifo_before)
                  /\ t.aggregate_after = t.aggregate_before - t.resting_before
                  /\ t.opposite_total_after
                         = t.opposite_total_before - t.resting_before
                  /\ i = Len(last.trades)
                  /\ orders[o].quantity = 0
                  /\ orders[b].quantity = 0
                  /\ {o, b} \cap (Linked(bid_orders) \cup Linked(ask_orders)) = {}
                  /\ {o, b} \cap Indexed(Now) = {}
                  /\ {orders[o].order_id, orders[b].order_id}
                         \cap DOMAIN id_to_order_map = {}

\* A LIMIT order met the head of a two-order level with exactly the head's
\* quantity: the head is gone, the order behind it is the level.
C24_Witness ==
    /\ last.op = "place_order"
    /\ Len(last.trades) = 1
    /\ LET t == last.trades[1] IN
       /\ t.incoming_before = t.resting_before
       /\ orders[t.incoming].order_type_enum = LIMIT
       /\ Len(t.fifo_before) = 2
       /\ NodesAt(BookOf(Now, orders[t.resting].bid_ask_enum),
                  orders[t.resting].price[1]) = Tail(t.fifo_before)
       /\ orders[t.resting].quantity = 0

\* The call recorded in `call` placed a MARKET order that met no order.
MarketMetNothing(call) ==
    /\ call.op = "place_order"
    /\ call.args[1].order_type_enum = MARKET
    /\ call.trades = <<>>

\* The step places a LIMIT order that rests with its full quantity.
RestsInFull ==
    /\ last'.trades = <<>>
    /\ orders'[last'.target[1]].quantity = last'.args[1].quantity
    /\ IsResting(After, last'.target[1])

\* The step places a LIMIT order on the side opposite to the MARKET order
\* of the call before it.
LimitAfterMarket ==
    /\ MarketMetNothing(last)
    /\ Called("place_order")
    /\ last'.args[1].order_type_enum = LIMIT
    /\ last'.args[1].bid_ask_enum = Opposite(last.args[1].bid_ask_enum)

\* A MARKET order placed while the opposite side has no resting order
\* trades nothing, keeps its quantity, does not rest, and leaves the FIFOs,
\* the aggregates, the id-index and every other order as they were.
MarketVsEmptyStep ==
    (/\ Called("place_order")
     /\ last'.args[1].order_type_enum = MARKET
     /\ Linked(BookOf(Now, Opposite(last'.args[1].bid_ask_enum))) = {}) =>
        LET o == last'.target[1] IN
        /\ last'.trades = <<>>
        /\ last'.raised = None
        /\ orders' = Append(orders, last'.args[1])
        /\ IsDiscarded(After, o)
        /\ id_to_order_map' = id_to_order_map
        /\ bid_orders'.price_to_list_map = bid_orders.price_to_list_map
        /\ ask_orders'.price_to_list_map = ask_orders.price_to_list_map
        /\ bid_orders'.price_to_quantity_map = bid_orders.price_to_quantity_map
        /\ ask_orders'.price_to_quantity_map = ask_orders.price_to_quantity_map
        /\ BookView(After) = BookView(Now)

\* C25 as stated. A MARKET order placed while the opposite side has no
\* resting order trades nothing: its quantity is unchanged, it does not
\* rest, and both sides, the aggregates and the id-index are unchanged, so
\* a LIMIT order placed afterwards on the opposite side rests with its full
\* quantity.
C25_LimitAfterwardsRestsInFull ==
    [][MarketVsEmptyStep /\ (LimitAfterMarket => RestsInFull)]_vars

\* C25, amended. As above, but the LIMIT order placed afterwards on the
\* opposite side never trades with the MARKET order, and rests with its
\* full quantity exactly when it crosses no order resting on the MARKET
\* order's side.
C25_Step ==
    /\ MarketVsEmptyStep
    /\ LimitAfterMarket =>
          LET market == last.target[1]
              side == last'.args[1].bid_ask_enum
              best == BestResting(Now, Opposite(side))
          IN /\ \A i \in 1..Len(last'.trades) : last'.trades[i].resting # market
             /\ market \notin Linked(bid_orders') \cup Linked(ask_orders')
             /\ orders'[market] = orders[market]
             /\ RestsInFull <=>
                    \/ best = None
                    \/ ~Crosses(side, last'.args[1].price[1],
                                orders[best[1]].price[1])

\* C25 amended, over every step of every behaviour.
C25_MarketVsEmptyOpposite ==
    [][C25_Step]_vars

\* An order rests on the bid side; a MARKET bid met an empty ask side and
\* was discarded whole; the LIMIT ask placed next does not reach the
\* resting bid and rests with its full quantity.
C25_Witness ==
    /\ last.op = "place_order"
    /\ last.args[1].order_type_enum = LIMIT
    /\ last.trades = <<>>
    /\ Len(orders) = 3
    /\ orders[2].order_type_enum = MARKET
    /\ orders[2].bid_ask_enum = Opposite(orders[3].bid_ask_enum)
    /\ orders[2].quantity = placed_quantity[2]
    /\ 1 \in Linked(BookOf(Now, orders[2].bid_ask_enum))
    /\ orders[1].quantity = placed_quantity[1]
    /\ IsResting(Now, 3)
    /\ orders[3].quantity = placed_quantity[3]

\* C26. An order placed with quantity 0 does not match and does not rest:
\* place_order makes no match step and leaves every other order's
\* quantity, both sides' FIFOs and aggregates, and the id-index unchanged.
C26_Step ==
    (Called("place_order") /\ last'.args[1].quantity = 0) =>
        LET o == last'.target[1] IN
        /\ last'.trades = <<>>
        /\ last'.raised = None
        /\ orders' = Append(orders, last'.args[1])
        /\ o \notin Linked(bid_orders') \cup Linked(ask_orders')
        /\ o \notin Indexed(After)
        /\ id_to_order_map' = id_to_order_map
        /\ bid_orders'.price_to_list_map = bid_orders.price_to_list_map
        /\ ask_orders'.price_to_list_map = ask_orders.price_to_list_map
        /\ bid_orders'.price_to_quantity_map = bid_orders.price_to_quantity_map
        /\ ask_orders'.price_to_quantity_map = ask_orders.price_to_quantity_map
        /\ BookView(After) = BookView(Now)

\* C26, over every step of every behaviour: an order of quantity 0 is
\* without effect.
C26_ZeroQuantityNoEffect ==
    [][C26_Step]_vars

\* A LIMIT order of quantity 0 was placed at a price that crosses the best
\* order of the opposite side, which is still there with all it had.
C26_Witness ==
    /\ last.op = "place_order"
    /\ last.args[1].quantity = 0
    /\ last.args[1].order_type_enum = LIMIT
    /\ LET side == last.args[1].bid_ask_enum
           best == BestResting(Now, Opposite(side))
       IN /\ best # None
          /\ Crosses(side, last.args[1].price[1], orders[best[1]].price[1])
          /\ orders[best[1]].quantity = placed_quantity[best[1]]

\* The number of times key occurs in a price heap.
KeyCount(heap, key) ==
    Cardinality({i \in 1..Len(heap) : heap[i] = key})

\* C27. Each side's price heap holds one entry per distinct price: in
\* every reachable state no price key occurs more than once in a side's
\* price_heap, also after cancel_order emptied a level and an order was
\* added at that price before any cleanup removed the stale key.
C27_OneHeapEntryPerPrice ==
    \A book \in {bid_orders, ask_orders} :
        \A i, j \in 1..Len(book.price_heap) :
            book.price_heap[i] = book.price_heap[j] => i = j

\* The prices of a side that hold at least one resting order.
ActivePrices(book) ==
    {p \in DOMAIN book.price_to_list_map : book.price_to_list_map[p].nodes # <<>>}

\* Every active price of the side has a key in the side's heap.
HeapCovers(book) ==
    \A p \in ActivePrices(book) : KeyCount(book.price_heap, _heap_key(book, p)) > 0

\* A cleanup pass on the side takes keys off the top of the heap only,
\* each of a price that holds no resting order, and leaves the levels alone.
CleanupTakesStaleOnly(book) ==
    LET cleaned == _delete_best_cancelled_orders(book)
        taken == Len(book.price_heap) - Len(cleaned.price_heap)
    IN /\ taken >= 0
       /\ cleaned.price_heap
              = SubSeq(book.price_heap, taken + 1, Len(book.price_heap))
       /\ \A i \in 1..taken :
              _real_price(book, book.price_heap[i]) \notin ActivePrices(book)
       /\ Levels(cleaned) = Levels(book)
       /\ delete_best_cancelled_orders(book) = cleaned

\* C28. The heap over-approximates the active levels: in every reachable
\* state every price with at least one resting order on a side has a key
\* in that side's price_heap; stale keys may be present, no active price
\* is ever missing, and a key leaves the heap only when its price holds no
\* resting order (before the operation, or once the operation has emptied
\* the level).
C28_Step ==
    /\ HeapCovers(bid_orders') /\ HeapCovers(ask_orders')
    /\ CleanupTakesStaleOnly(bid_orders') /\ CleanupTakesStaleOnly(ask_orders')
    /\ \A side \in BidAskEnum :
           LET before == BookOf(Now, side)
               after == BookOf(After, side)
           IN \A p \in 1..MaxPrice :
                  KeyCount(after.price_heap, _heap_key(after, p))
                      < KeyCount(before.price_heap, _heap_key(before, p))
                  => \/ p \notin ActivePrices(before)
                     \/ p \notin ActivePrices(after)

\* C28, over every step of every behaviour: the heap holds a key for
\* every active price and loses keys of inactive prices only.
C28_HeapCoversLevels ==
    [][C28_Step]_vars

\* The cleanup of a placement has taken the key of a cancelled ask level
\* off the ask heap, which holds the key of the level that has an order.
C28_Witness ==
    /\ last.op = "place_order"
    /\ last.trades = <<>>
    /\ ActivePrices(ask_orders) # {}
    /\ \E h \in Gone :
           /\ orders[h].order_type_enum = LIMIT
           /\ orders[h].bid_ask_enum = ASK
           /\ orders[h].quantity = placed_quantity[h]
           /\ KeyCount(ask_orders.price_heap, orders[h].price[1]) = 0

\* C29. Level lifecycle: after every operation a price is a key of a
\* side's price_to_list_map if and only if it is a key of that side's
\* price_to_quantity_map, and every level in the maps has a non-empty FIFO
\* and a strictly positive aggregate; so a level whose last order is
\* cancelled or fully filled has left both maps when that operation
\* returns.
C29_LevelLifecycle ==
    /\ \A book \in {bid_orders, ask_orders} :
           /\ DOMAIN book.price_to_list_map = DOMAIN book.price_to_quantity_map
           /\ \A p \in DOMAIN book.price_to_list_map :
                  /\ ~is_empty(book.price_to_list_map[p])
                  /\ book.price_to_quantity_map[p] > 0
    /\ \A h \in Gone :
           (orders[h].price # None /\ NodesAt(BookOf(Now, orders[h].bid_ask_enum),
                                             orders[h].price[1]) = <<>>)
           => LET book == BookOf(Now, orders[h].bid_ask_enum) IN
              /\ orders[h].price[1] \notin DOMAIN book.price_to_list_map
              /\ orders[h].price[1] \notin DOMAIN book.price_to_quantity_map

\* A placement filled the only order of a level, which has left both
\* maps, while another level of that side still holds an order.
C29_Witness ==
    /\ last.op = "place_order"
    /\ last.trades # <<>>
    /\ LET t == last.trades[1]
           book == BookOf(Now, orders[t.resting].bid_ask_enum)
       IN /\ t.resting_after = 0
          /\ Len(t.fifo_before) = 1
          /\ orders[t.resting].price[1] \notin DOMAIN book.price_to_list_map
          /\ orders[t.resting].price[1] \notin DOMAIN book.price_to_quantity_map
          /\ DOMAIN book.price_to_list_map # {}

\* C30. cancel_order does not touch the price heap: for every identifier,
\* resting or not, each side's price_heap is the same before and after
\* cancel_order, also when the cancel empties a level; a key leaves a
\* heap only in a later place_order or best-order read, whose cleanup
\* pass takes the stale keys off the top.
C30_Step ==
    /\ Called("cancel_order") =>
          /\ bid_orders'.price_heap = bid_orders.price_heap
          /\ ask_orders'.price_heap = ask_orders.price_heap
          /\ \A side \in BidAskEnum :
                 LET read == get_best_order(BookOf(After, side)).book IN
                 \/ read.price_heap = <<>>
                 \/ _real_price(read, read.price_heap[1]) \in ActivePrices(read)
    /\ \A side \in BidAskEnum :
           Len(BookOf(After, side).price_heap) < Len(BookOf(Now, side).price_heap)
           => last'.op \in {"place_order", "query"}

\* C30, over every step of every behaviour: cancel_order leaves both price
\* heaps as they are.
C30_CancelKeepsHeap ==
    [][C30_Step]_vars

\* cancel_order has just emptied a level that is not the best of its
\* side: its key lies in the heap under the key of a level with an order.
C30_Witness ==
    /\ last.op = "cancel_order"
    /\ last.target # None
    /\ LET h == last.target[1]
           book == BookOf(Now, orders[h].bid_ask_enum)
       IN /\ orders[h].price[1] \notin ActivePrices(book)
          /\ KeyCount(book.price_heap, _heap_key(book, orders[h].price[1])) = 1
          /\ book.price_heap[1] # _heap_key(book, orders[h].price[1])
          /\ _real_price(book, book.price_heap[1]) \in ActivePrices(book)

\* The LIMIT orders of a side at price p that are in no FIFO: filled, on
\* arrival or while resting, or cancelled.
LeftLevel(side, p) ==
    {h \in Gone : /\ orders[h].order_type_enum = LIMIT
                  /\ orders[h].bid_ask_enum = side
                  /\ orders[h].price = Some(p)}

\* C31. A price level can be emptied and reused: once every order at
\* price p on a side has been cancelled or filled, a LIMIT order that then
\* rests at p on that side forms a level whose FIFO holds that order alone
\* and whose aggregate is its quantity alone, whether the stale key of the
\* old level is still in the heap or a cleanup pass has removed it; the
\* level is reported as best price and matched like any other level.
C31_Step ==
    Called("place_order") =>
        LET order == last'.args[1]
            o == last'.target[1]
            side == order.bid_ask_enum
        IN /\ (/\ IsResting(After, o)
               /\ order.price[1] \notin ActivePrices(BookOf(Now, side))) =>
                  LET p == order.price[1]
                      after == BookOf(After, side)
                  IN /\ NodesAt(after, p) = <<o>>
                     /\ get_quantity_for_price(after, p) = orders'[o].quantity
                     /\ KeyCount(after.price_heap, _heap_key(after, p)) >= 1
                     /\ get_best_order(after).result = BestResting(After, side)
                     /\ (\A r \in Linked(after) \ {o} : HasPriority(orders', side, o, r))
                            => /\ get_best_order(after).result = Some(o)
                               /\ (IF side = BID THEN get_best_bid_price(After)
                                   ELSE get_best_ask_price(After)).result = Some(p)
           /\ \A i \in 1..Len(last'.trades) :
                  LET t == last'.trades[i]
                      b == t.resting
                  IN LeftLevel(Opposite(side), orders[b].price[1]) # {} =>
                        /\ \A h \in LeftLevel(Opposite(side), orders[b].price[1]) :
                               h \notin SeqToSet(t.fifo_before)
                        /\ Head(t.fifo_before) = b
                        /\ t.aggregate_before
                               = SumQuantity(SeqToSet(t.fifo_before),
                                             [k \in 1..Len(orders) |->
                                                 IF k = b
                                                 THEN [orders[k] EXCEPT !.quantity = t.resting_before]
                                                 ELSE orders[k]])
                        /\ \A r \in t.opposite_before \ {b} :
                               HasPriority(orders, Opposite(side), b, r)

\* C31, over every step of every behaviour: an emptied level starts anew.
C31_LevelReuse ==
    [][C31_Step]_vars

\* A level was emptied by cancel_order under a better level, so that no
\* cleanup pass reached its key, and an order has been placed at its
\* price: the level holds that order alone, under two keys of the heap.
C31_Witness ==
    /\ last.op = "place_order"
    /\ IsResting(Now, last.target[1])
    /\ LET o == last.target[1]
           side == orders[o].bid_ask_enum
           p == orders[o].price[1]
           book == BookOf(Now, side)
       IN /\ NodesAt(book, p) = <<o>>
          /\ get_quantity_for_price(book, p) = orders[o].quantity
          /\ LeftLevel(side, p) # {}
          /\ KeyCount(book.price_heap, _heap_key(book, p)) = 2

\* C32. The book is never crossed: in every state reached by place_order
\* and cancel_order calls with well-formed orders, if both sides hold a
\* resting order then the best bid price is strictly less than the best
\* ask price, as the queries report them and as the FIFOs hold them.
C32_NeverCrossed ==
    /\ (Linked(bid_orders) # {} /\ Linked(ask_orders) # {}) =>
           /\ get_best_bid_price(Now).result # None
           /\ get_best_ask_price(Now).result # None
           /\ get_best_bid_price(Now).result[1] < get_best_ask_price(Now).result[1]
    /\ \A b \in Linked(bid_orders), a \in Linked(ask_orders) :
           orders[b].price[1] < orders[a].price[1]

\* A LIMIT order traded with the best opposite order and rests one tick
\* away from the order behind it: both sides hold an order and the best
\* prices are next to each other.
C32_Witness ==
    /\ last.op = "place_order"
    /\ last.trades # <<>>
    /\ IsResting(Now, last.target[1])
    /\ Linked(bid_orders) # {}
    /\ Linked(ask_orders) # {}
    /\ get_best_ask_price(Now).result[1] = get_best_bid_price(Now).result[1] + 1
    /\ orders[last.trades[1].resting].price = orders[last.target[1]].price

\* C33. Every resting order has a strictly positive remaining quantity
\* that never exceeds the quantity it was placed with: after every
\* operation no order with quantity 0 or below is linked in a FIFO or is
\* in the id-index, and no operation, nor any match step within it,
\* increases any order's quantity.
C33_Step ==
    /\ \A h \in Linked(bid_orders') \cup Linked(ask_orders') \cup Indexed(After) :
           /\ orders'[h].quantity > 0
           /\ orders'[h].quantity <= placed_quantity'[h]
    /\ \A h \in 1..Len(orders) :
           orders'[h].quantity <= orders[h].quantity
    /\ \A h \in 1..Len(orders') :
           /\ orders'[h].quantity <= placed_quantity'[h]
           /\ orders'[h].quantity >= 0
    /\ \A i \in 1..Len(last'.trades) :
           LET t == last'.trades[i] IN
           /\ t.incoming_after < t.incoming_before
           /\ t.resting_after < t.resting_before
           /\ t.incoming_after >= 0
           /\ t.resting_after >= 0
           /\ t.resting_after > 0 => t.resting \in Linked(bid_orders') \cup Linked(ask_orders')

\* C33, over every step of every behaviour: resting quantities are
\* positive and quantities only fall.
C33_QuantityBounds ==
    [][C33_Step]_vars

\* An order rests with less than it was placed with, above 0, after two
\* placements each took a part of it.
C33_Witness ==
    /\ last.op = "place_order"
    /\ last.trades # <<>>
    /\ LET b == last.trades[1].resting IN
       /\ b \in Linked(bid_orders) \cup Linked(ask_orders)
       /\ orders[b].quantity > 0
       /\ last.trades[1].resting_before < placed_quantity[b]
       /\ orders[b].quantity < last.trades[1].resting_before

\* C34. place_order never disturbs the incoming order's home side: the
\* quantities, price levels and FIFO order of the orders that rest on the
\* order's own side are the same after place_order as before; the only
\* change that side can show is the order itself at the tail of the level
\* at its price, and the aggregate of that level grown by its quantity.
C34_Step ==
    Called("place_order") =>
        LET o == last'.target[1]
            side == last'.args[1].bid_ask_enum
            before == BookOf(Now, side)
            after == BookOf(After, side)
        IN /\ \A h \in Linked(before) : orders'[h] = orders[h]
           /\ Linked(after) \in {Linked(before), Linked(before) \cup {o}}
           /\ o \notin Linked(after) =>
                 /\ Levels(after) = Levels(before)
                 /\ \A p \in 0..MaxPrice :
                        get_quantity_for_price(after, p) = get_quantity_for_price(before, p)
           /\ o \in Linked(after) =>
                 LET price == orders'[o].price[1] IN
                 /\ \A p \in (0..MaxPrice) \ {price} :
                        /\ NodesAt(after, p) = NodesAt(before, p)
                        /\ get_quantity_for_price(after, p)
                               = get_quantity_for_price(before, p)
                 /\ NodesAt(after, price) = Append(NodesAt(before, price), o)
                 /\ get_quantity_for_price(after, price)
                        = get_quantity_for_price(before, price) + orders'[o].quantity

\* C34, over every step of every behaviour: place_order leaves the home
\* side's resting orders alone.
C34_HomeSideFrame ==
    [][C34_Step]_vars

\* A LIMIT order traded on the opposite side and rests with what was
\* left; an order that rested on its own side at another price is where
\* it was, with all it had.
C34_Witness ==
    /\ last.op = "place_order"
    /\ last.trades # <<>>
    /\ IsResting(Now, last.target[1])
    /\ LET o == last.target[1]
           book == BookOf(Now, orders[o].bid_ask_enum)
       IN \E r \in Linked(book) \ {o} :
              /\ r < o
              /\ orders[r].price # orders[o].price
              /\ orders[r].quantity = placed_quantity[r]

\* C35. The matching loop of place_order terminates: every iteration
\* either brings the incoming quantity to 0, which ends the loop, or
\* removes one resting order from the opposite side, so the number of
\* iterations is at most the number of orders resting on the opposite side
\* when the call began, plus one (and in fact at most that number).
C35_Step ==
    Called("place_order") =>
        LET o == last'.target[1]
            opp == Opposite(last'.args[1].bid_ask_enum)
            began == Linked(BookOf(Now, opp))
            n == Len(last'.trades)
        IN /\ n <= Cardinality(began) + 1
           /\ n <= Cardinality(began)
           /\ n > 0 => last'.trades[1].opposite_before = began
           /\ \A i \in 1..n :
                  LET t == last'.trades[i]
                      left == IF i < n THEN last'.trades[i + 1].opposite_before
                              ELSE Linked(BookOf(After, opp))
                  IN /\ t.incoming = o
                     /\ t.resting \in t.opposite_before
                     /\ \/ t.incoming_after = 0 /\ i = n
                        \/ /\ t.resting_after = 0
                           /\ left = t.opposite_before \ {t.resting}
                     /\ left \subseteq t.opposite_before
           /\ \A i, j \in 1..n :
                  last'.trades[i].resting = last'.trades[j].resting => i = j

\* C35, over every step of every behaviour: the iterations of the
\* matching loop are bounded by the opposite side.
C35_MatchingTerminates ==
    [][C35_Step]_vars

\* An order went through as many iterations as the opposite side held
\* orders, two, removed both and still has quantity left.
C35_Witness ==
    /\ last.op = "place_order"
    /\ Len(last.trades) = 2
    /\ Cardinality(last.trades[1].opposite_before) = 2
    /\ last.trades[2].incoming_after > 0
    /\ Linked(BookOf(Now, Opposite(last.args[1].bid_ask_enum))) = {}

\* The engine with a cleanup pass run on both sides.
Cleaned(st) ==
    [st EXCEPT !.bid_orders = _delete_best_cancelled_orders(@),
               !.ask_orders = _delete_best_cancelled_orders(@)]

\* Engines s and t answer alike: every query returns the same, every
\* place_order of a new order leaves the same engine and makes the same
\* match steps, and every cancel_order leaves the same book.
AnswerAlike(s, t) ==
    /\ Observed(s) = Observed(t)
    /\ Cleaned(s) = Cleaned(t)
    /\ \A order \in WellFormedOrders(Len(s.orders) + 1) :
           place_order(WithOrder(s, order), Len(s.orders) + 1)
               = place_order(WithOrder(t, order), Len(t.orders) + 1)
    /\ \A order_id \in 1..MaxOrders :
           /\ BookView(cancel_order(s, order_id)) = BookView(cancel_order(t, order_id))
           /\ Cleaned(cancel_order(s, order_id)) = Cleaned(cancel_order(t, order_id))
           /\ cancel_order(s, order_id).orders = cancel_order(t, order_id).orders

\* C36. Queries are logically read-only: get_best_bid_order,
\* get_best_ask_order, get_best_bid_price, get_best_ask_price and
\* get_quantity_for_price change no order, no FIFO, no aggregate and no
\* id-index entry; all they may change is a price heap, from whose top
\* stale keys are removed; and the engine after the query answers every
\* later operation and query as the engine before it would have.
C36_Step ==
    last'.op = "query" =>
        /\ orders' = orders
        /\ id_to_order_map' = id_to_order_map
        /\ last'.raised = None
        /\ \A side \in BidAskEnum :
               LET before == IF side = BID THEN bid_orders ELSE ask_orders
                   after == IF side = BID THEN bid_orders' ELSE ask_orders'
                   taken == Len(before.price_heap) - Len(after.price_heap)
               IN /\ after.price_to_list_map = before.price_to_list_map
                  /\ after.price_to_quantity_map = before.price_to_quantity_map
                  /\ \/ after.price_heap = before.price_heap
                     \/ /\ taken > 0
                        /\ after.price_heap
                               = SubSeq(before.price_heap, taken + 1,
                                        Len(before.price_heap))
                        /\ \A i \in 1..taken :
                               _real_price(before, before.price_heap[i])
                                   \notin ActivePrices(before)

\* The engines the four best-order and best-price queries leave when
\* called now (get_quantity_for_price leaves the engine as it is).
AfterQuery ==
    {get_best_bid_order(Now).st, get_best_ask_order(Now).st,
     get_best_bid_price(Now).st, get_best_ask_price(Now).st}

\* The second half of C36, in every state between two calls: whichever
\* query is called now, the engine it leaves answers alike.
C36_Law ==
    AtRest => \A s \in AfterQuery \ {Now} : AnswerAlike(s, Now)

\* C36, over every step and every state of every behaviour: a query
\* changes nothing that an operation or a query can tell.
C36_QueriesReadOnly ==
    [][C36_Step]_vars /\ []C36_Law

\* The last order created rested and was cancelled, and a query has since
\* taken its stale key off the heap of its side.
C36_Witness ==
    /\ last.op = "query"
    /\ orders # <<>>
    /\ LET h == Len(orders)
           book == BookOf(Now, orders[h].bid_ask_enum)
       IN /\ h \in Gone
          /\ orders[h].order_type_enum = LIMIT
          /\ orders[h].quantity = placed_quantity[h]
          /\ KeyCount(book.price_heap, _heap_key(book, orders[h].price[1])) = 0
          /\ Linked(bid_orders) \cup Linked(ask_orders) # {}

\* The quantity filled so far on the orders of a side ever placed: what
\* each was placed with less what it has now.
RECURSIVE FilledOn(_, _)
FilledOn(side, n) ==
    IF n = 0 THEN 0
    ELSE FilledOn(side, n - 1)
         + (IF orders[n].bid_ask_enum = side
            THEN placed_quantity[n] - orders[n].quantity ELSE 0)

\* C37. Bought equals sold: after any sequence of place_order and
\* cancel_order calls, the total quantity filled on bid-side orders (the
\* sum over all bids ever placed of placed quantity minus current
\* quantity) equals the total quantity filled on ask-side orders.
C37_BoughtEqualsSold ==
    /\ Len(placed_quantity) = Len(orders)
    /\ FilledOn(BID, Len(orders)) = FilledOn(ASK, Len(orders))

\* A bid was filled in part by two asks and then cancelled with quantity
\* left: two units bought, two sold.
C37_Witness ==
    /\ last.op = "cancel_order"
    /\ last.target # None
    /\ LET h == last.target[1] IN
       /\ orders[h].bid_ask_enum = BID
       /\ orders[h].quantity > 0
       /\ placed_quantity[h] - orders[h].quantity = 2
    /\ FilledOn(BID, Len(orders)) = 2
    /\ FilledOn(ASK, Len(orders)) = 2
    /\ \A h \in 1..Len(orders) :
           orders[h].bid_ask_enum = ASK => placed_quantity[h] - orders[h].quantity = 1

====
